---- MODULE Spec2Model ----
(***************************************************************************)
(* Model of the OpenAlex -> Neo4j importer (openalex_neo4j/importer.py),   *)
(* the storage client it drives (neo4j_client.py) and the entity records   *)
(* (models.py).  One import run is a walk of import_from_query: search and *)
(* seed, expand_depth expansion rounds, constraints, indexes, node batches *)
(* and relationship batches.  The bibliographic source and the graph store *)
(* are collaborators: the source answers from a fixed catalogue and may    *)
(* drop or duplicate records, the store may fail single statements.        *)
(***************************************************************************)
EXTENDS Integers, Sequences, FiniteSets, TLC

\* ------------------------------------------------------------------ bounds
\* Largest expand_depth and limit an import is called with, the number of
\* collaborator faults (a record not delivered, a record delivered twice, a
\* failed storage statement) in one run, and the batch size of the storage
\* client (batch_size=500 in the source, scaled so that a call spans batches).
MaxDepth == 2
MaxLimit == 2
MaxFaults == 1
BatchSize == 2

\* ------------------------------------------------------------- basic values
\* Python's None in a string-valued field.
None == "None"
\* The value of a publishers entry that is still a placeholder (None).
Placeholder == [placeholder |-> TRUE]

WorkIds == {"W1", "W2", "W3"}
AuthorIds == {"A1", "A2"}
InstitutionIds == {"I1"}
SourceIds == {"S1", "S2"}
TopicIds == {"T1"}
FunderIds == {"F1"}
PublisherIds == {"P1"}

\* A fixed enumeration order of the IDs: list(some_set) lists a set in it.
IdOrder == <<"A1", "A2", "F1", "I1", "P1", "S1", "S2", "T1", "W1", "W2", "W3">>
ListOf(S) == SelectSeq(IdOrder, LAMBDA x : x \in S)

Range(s) == {s[i] : i \in DOMAIN s}

RECURSIVE ConcatAll(_)
ConcatAll(ss) == IF ss = <<>> THEN <<>> ELSE Head(ss) \o ConcatAll(Tail(ss))

RECURSIVE SumSeq(_)
SumSeq(s) == IF s = <<>> THEN 0 ELSE Head(s) + SumSeq(Tail(s))

RECURSIVE SubsetsUpTo(_, _)
SubsetsUpTo(S, k) ==
    IF k <= 0 THEN {{}}
    ELSE LET P == SubsetsUpTo(S, k - 1) IN P \cup {p \cup {x} : p \in P, x \in S}

\* The sequences of at most n distinct elements of S.
RECURSIVE DistinctSeqs(_, _)
DistinctSeqs(S, n) ==
    IF n <= 0 THEN {<<>>}
    ELSE LET P == DistinctSeqs(S, n - 1)
         IN P \cup UNION {{Append(p, x) : x \in S \ Range(p)} : p \in P}

\* ---------------------------------------------- Python dicts (insertion order)
\* A dict is the sequence of its entries [key, val] in insertion order.
Keys(d) == {d[i].key : i \in DOMAIN d}
Has(d, k) == k \in Keys(d)
Get(d, k) == (CHOOSE i \in DOMAIN d : d[i].key = k)
Val(d, k) == d[Get(d, k)].val
Values(d) == [i \in DOMAIN d |-> d[i].val]
\* d[k] = v: overwrite in place when the key exists, append otherwise.
Put(d, k, v) ==
    IF Has(d, k)
    THEN [i \in DOMAIN d |-> IF d[i].key = k THEN [key |-> k, val |-> v] ELSE d[i]]
    ELSE Append(d, [key |-> k, val |-> v])

\* -------------------------------------------------------- records (models.py)
Title(v) == <<"v1", "v2", "v3", "v4">>[v]

\* The bibliographic source's catalogue.  v tells apart two records delivered
\* for the same ID (their title / display name differs).
CatalogWork(id, v) ==
    CASE id = "W1" ->
           [id |-> "W1", title |-> Title(v), type |-> "journal-article",
            abstract |-> "text", author_ids |-> <<"A1">>,
            institution_ids |-> <<"I1">>, source_id |-> "S1",
            topic_ids |-> <<"T1">>, funder_ids |-> <<"F1">>,
            referenced_work_ids |-> <<"W2">>]
      [] id = "W2" ->
           [id |-> "W2", title |-> Title(v), type |-> None,
            abstract |-> None, author_ids |-> <<"A1", "A2", "A1">>,
            institution_ids |-> <<"I1">>, source_id |-> "S2",
            topic_ids |-> <<>>, funder_ids |-> <<>>,
            referenced_work_ids |-> <<"W3", "W3", "W1">>]
      [] OTHER ->
           [id |-> id, title |-> Title(v), type |-> "article",
            abstract |-> None, author_ids |-> <<>>,
            institution_ids |-> <<>>, source_id |-> None,
            topic_ids |-> <<>>, funder_ids |-> <<>>,
            referenced_work_ids |-> <<>>]

CatalogEntity(kind, id, v) ==
    IF kind = "Work" THEN CatalogWork(id, v)
    ELSE IF kind = "Source"
    THEN [id |-> id, display_name |-> Title(v),
          publisher_id |-> IF id = "S1" THEN "P1" ELSE None]
    ELSE [id |-> id, display_name |-> Title(v)]

to_camel_case_label(text) ==
    CASE text = "journal-article" -> "JournalArticle"
      [] text = "article" -> "Article"
      [] OTHER -> None

\* Work.to_node_dict: the property map, with the sub-type label in _label.
WorkToNodeDict(w) ==
    ("id" :> w.id) @@ ("title" :> w.title) @@ ("type" :> w.type)
    @@ ("abstract" :> w.abstract)
    @@ ("_label" :> IF w.type # None THEN to_camel_case_label(w.type) ELSE "Work")

\* to_node_dict of the other six kinds (Source drops its publisher_id).
EntityToNodeDict(e) == ("id" :> e.id) @@ ("display_name" :> e.display_name)

\* --------------------------------------------- bibliographic source (replies)
\* A fault of the source on one requested record: "miss" (the chunk request
\* failed, the record was not found or did not parse) or "dup" (delivered twice).
FetchKinds == {"Author", "Institution", "Source", "Topic", "Funder", "Work", "Publisher"}
KindIds(kind) ==
    CASE kind = "Author" -> AuthorIds [] kind = "Institution" -> InstitutionIds
      [] kind = "Source" -> SourceIds [] kind = "Topic" -> TopicIds
      [] kind = "Funder" -> FunderIds [] kind = "Work" -> WorkIds
      [] OTHER -> PublisherIds
FetchFaults ==
    UNION {[kind : {k}, id : KindIds(k), what : {"miss", "dup"}] : k \in FetchKinds}

\* What fetch_<kind>_by_ids(req) returns under the faults F: the records found,
\* in request order, then the second copies of those delivered twice.
FetchResult(kind, req, F) ==
    ConcatAll([i \in DOMAIN req |->
        IF [kind |-> kind, id |-> req[i], what |-> "miss"] \in F THEN <<>>
        ELSE <<CatalogEntity(kind, req[i], 1)>>])
    \o ConcatAll([i \in DOMAIN req |->
        IF [kind |-> kind, id |-> req[i], what |-> "dup"] \in F
        THEN <<CatalogEntity(kind, req[i], 2)>> ELSE <<>>])

\* What search_works returns for the hit list ids under the faults F (a hit
\* delivered twice).
SearchResult(ids, F) == FetchResult("Work", ids, F)
SearchFaults(ids) == [kind : {"Work"}, id : Range(ids), what : {"dup"}]

\* ------------------------------------------------- collector (importer.py)
RECURSIVE AddWorksLastWins(_, _)
AddWorksLastWins(ws, list) ==
    IF list = <<>> THEN ws
    ELSE AddWorksLastWins(Put(ws, Head(list).id, Head(list)), Tail(list))

\* OpenAlexImporter._add_works: insert only when the ID is absent.
RECURSIVE AddWorks(_, _)
AddWorks(ws, list) ==
    IF list = <<>> THEN ws
    ELSE AddWorks(IF Has(ws, Head(list).id) THEN ws
                  ELSE Put(ws, Head(list).id, Head(list)), Tail(list))

\* for x in fetched: self.<kind>[x.id] = x
RECURSIVE MergeEntities(_, _)
MergeEntities(d, list) ==
    IF list = <<>> THEN d
    ELSE MergeEntities(Put(d, Head(list).id, Head(list)), Tail(list))

\* A sources loop that stores the sources and records no publisher ID.
MergeSourcesNoPlaceholder(cp, list) ==
    [sources |-> MergeEntities(cp.sources, list), publishers |-> cp.publishers]

\* The sources loop: store the source, and record a publisher ID seen for the
\* first time as a placeholder.  cp = [sources, publishers].
RECURSIVE MergeSources(_, _)
MergeSources(cp, list) ==
    IF list = <<>> THEN cp
    ELSE LET s == Head(list)
             withPub == s.publisher_id # None /\ ~Has(cp.publishers, s.publisher_id)
         IN MergeSources(
              [sources |-> Put(cp.sources, s.id, s),
               publishers |-> IF withPub
                              THEN Put(cp.publishers, s.publisher_id, Placeholder)
                              ELSE cp.publishers],
              Tail(list))

\* The IDs a list-valued reference field names over all works of ws.
\* The references of the first work only (a loop that stops after one pass).
ReferencedFirst(ws, field) == IF ws = <<>> THEN {} ELSE Range(ws[1].val[field])
Referenced(ws, field) == UNION {Range(ws[i].val[field]) : i \in DOMAIN ws}
ReferencedSources(ws) ==
    {ws[i].val.source_id : i \in {j \in DOMAIN ws : ws[j].val.source_id # None}}

\* publisher_ids = [pid for pid, pub in self.publishers.items() if pub is None]
PlaceholderIds(pubs) ==
    LET ph == SelectSeq(pubs, LAMBDA e : e.val = Placeholder)
    IN [i \in DOMAIN ph |-> ph[i].key]

\* A frontier that forgets the subtraction: every referenced ID, held or not.
FrontierAll(c, kind) ==
    CASE kind = "Author" -> Referenced(c.works, "author_ids")
      [] kind = "Institution" -> Referenced(c.works, "institution_ids")
      [] kind = "Source" -> ReferencedSources(c.works)
      [] kind = "Topic" -> Referenced(c.works, "topic_ids")
      [] kind = "Funder" -> Referenced(c.works, "funder_ids")
      [] kind = "Work" -> Referenced(c.works, "referenced_work_ids")

\* The IDs to fetch: those the works reference, less those already held.
Frontier(c, kind) ==
    CASE kind = "Author" -> Referenced(c.works, "author_ids") \ Keys(c.authors)
      [] kind = "Institution" ->
           Referenced(c.works, "institution_ids") \ Keys(c.institutions)
      [] kind = "Source" -> ReferencedSources(c.works) \ Keys(c.sources)
      [] kind = "Topic" -> Referenced(c.works, "topic_ids") \ Keys(c.topics)
      [] kind = "Funder" -> Referenced(c.works, "funder_ids") \ Keys(c.funders)
      [] kind = "Work" -> Referenced(c.works, "referenced_work_ids") \ Keys(c.works)

\* The faults that can hit a round on c: on a record of a frontier, or on a
\* publisher (whether it is requested shows once the sources have arrived).
RoundFaults(c) ==
    {f \in FetchFaults : f.kind = "Publisher" \/ f.id \in Frontier(c, f.kind)}

\* One call of the bibliographic source, as logged.
FetchCall(kind, req, res) == [op |-> "fetch", kind |-> kind, ids |-> req, result |-> res]
Issued(kind, req, res) == IF req = <<>> THEN <<>> ELSE <<FetchCall(kind, req, res)>>

\* OpenAlexImporter._expand_relationships on the collections c under the source
\* faults F: the collections after the round and the fetch calls it issued.
ExpandRound(c, F) ==
    LET author_ids == ListOf(Frontier(c, "Author"))
        institution_ids == ListOf(Frontier(c, "Institution"))
        source_ids == ListOf(Frontier(c, "Source"))
        topic_ids == ListOf(Frontier(c, "Topic"))
        funder_ids == ListOf(Frontier(c, "Funder"))
        referenced_work_ids == ListOf(Frontier(c, "Work"))
        rAuthors == FetchResult("Author", author_ids, F)
        rInsts == FetchResult("Institution", institution_ids, F)
        rSources == FetchResult("Source", source_ids, F)
        rTopics == FetchResult("Topic", topic_ids, F)
        rFunders == FetchResult("Funder", funder_ids, F)
        rWorks == FetchResult("Work", referenced_work_ids, F)
        sp == MergeSources([sources |-> c.sources, publishers |-> c.publishers], rSources)
        publisher_ids == PlaceholderIds(sp.publishers)
        rPubs == FetchResult("Publisher", publisher_ids, F)
        requested == [Author |-> author_ids, Institution |-> institution_ids,
                      Source |-> source_ids, Topic |-> topic_ids,
                      Funder |-> funder_ids, Work |-> referenced_work_ids,
                      Publisher |-> publisher_ids]
    IN [coll |-> [works |-> AddWorks(c.works, rWorks),
                  authors |-> MergeEntities(c.authors, rAuthors),
                  institutions |-> MergeEntities(c.institutions, rInsts),
                  sources |-> sp.sources,
                  topics |-> MergeEntities(c.topics, rTopics),
                  publishers |-> MergeEntities(sp.publishers, rPubs),
                  funders |-> MergeEntities(c.funders, rFunders)],
        calls |-> Issued("Author", author_ids, rAuthors)
                  \o Issued("Institution", institution_ids, rInsts)
                  \o Issued("Source", source_ids, rSources)
                  \o Issued("Topic", topic_ids, rTopics)
                  \o Issued("Funder", funder_ids, rFunders)
                  \o Issued("Work", referenced_work_ids, rWorks)
                  \o Issued("Publisher", publisher_ids, rPubs),
        \* every fault of F hit a requested record, at most one fault per record
        valid |-> /\ \A f \in F : f.id \in Range(requested[f.kind])
                  /\ \A f, g \in F : (f.kind = g.kind /\ f.id = g.id) => f = g]

\* ------------------------------------------------ graph store (neo4j_client.py)
\* The store holds nodes [nid, labels, props], relationships [type, from, to],
\* and the number of constraints and of indexes whose statement went through.
ENTITY_TYPES == <<"Work", "Author", "Institution", "Source", "Topic", "Publisher", "Funder">>
\* create_indexes: one fulltext, five text and eight regular index statements.
IndexStatements == 14

\* nodes[i:i + batch_size] for i in range(0, len(nodes), batch_size)
Batches(list, size) ==
    [b \in 1..((Len(list) + size - 1) \div size) |->
        SubSeq(list, (b - 1) * size + 1,
               IF b * size < Len(list) THEN b * size ELSE Len(list))]

\* SET n += item: every key of item is written, a null value removes the key.
SetPlus(props, item) ==
    [k \in {x \in DOMAIN props \cup DOMAIN item :
                ~(x \in DOMAIN item /\ item[x] = None)} |->
        IF k \in DOMAIN item THEN item[k] ELSE props[k]]

MatchNodes(st, label, id) ==
    {n \in st.nodes : label \in n.labels /\ "id" \in DOMAIN n.props /\ n.props["id"] = id}

\* A row written with CREATE in place of MERGE: a new node every time.
MergeNodeCreate(q, label, item, dyn) ==
    LET st == q.store
        written == IF dyn
                   THEN [k \in DOMAIN item |-> IF k = "_label" THEN None ELSE item[k]]
                   ELSE item
    IN [store |-> [st EXCEPT !.nodes = st.nodes \cup
                        {[nid |-> st.next,
                          labels |-> IF dyn THEN {label, item["_label"]} ELSE {label},
                          props |-> SetPlus(("id" :> item["id"]), written)]},
                             !.next = st.next + 1],
        count |-> q.count + 1]

\* One row of "MERGE (n:label {id: item.id}) SET ...": with dyn the item is
\* written without its _label and _label becomes a label of the node.
\* q = [store, count] is the statement's state before the row.
MergeNode(q, label, item, dyn) ==
    LET st == q.store
        M == MatchNodes(st, label, item["id"])
        bound == IF M = {}
                 THEN {[nid |-> st.next, labels |-> {label}, props |-> ("id" :> item["id"])]}
                 ELSE M
        written == IF dyn
                   THEN [k \in DOMAIN item |-> IF k = "_label" THEN None ELSE item[k]]
                   ELSE item
        upd(n) == [nid |-> n.nid,
                   labels |-> IF dyn THEN n.labels \cup {item["_label"]} ELSE n.labels,
                   props |-> SetPlus(n.props, written)]
    IN [store |-> [st EXCEPT !.nodes = (st.nodes \ M) \cup {upd(n) : n \in bound},
                             !.next = IF M = {} THEN st.next + 1 ELSE st.next],
        count |-> q.count + Cardinality(bound)]

\* session.run(query, batch=batch) of batch_create_nodes: UNWIND the batch,
\* RETURN count(n).
RECURSIVE RunNodeQuery(_, _, _, _)
RunNodeQuery(q, label, batch, dyn) ==
    IF batch = <<>> THEN q
    ELSE RunNodeQuery(MergeNode(q, label, Head(batch), dyn), label, Tail(batch), dyn)

\* One row of "MATCH (a) MATCH (b) MERGE (a)-[r:type]->(b)": the
\* relationships it binds r to, one per pair of matched nodes.
MergeRel(st, rel_type, source_label, target_label, rel) ==
    {[type |-> rel_type, from |-> a.nid, to |-> b.nid] :
        a \in MatchNodes(st, source_label, rel.source_id),
        b \in MatchNodes(st, target_label, rel.target_id)}

\* session.run(query, batch=batch) of batch_create_relationships: UNWIND the
\* batch, MERGE per row (the MATCHes read nodes only, which no row changes),
\* RETURN count(r), the number of rows that bound r.
RunRelQuery(q, rel_type, source_label, target_label, batch) ==
    LET st == q.store
        merged == [j \in DOMAIN batch |->
                      MergeRel(st, rel_type, source_label, target_label, batch[j])]
    IN [store |-> [st EXCEPT !.rels = st.rels \cup UNION Range(merged)],
        count |-> q.count + SumSeq([j \in DOMAIN batch |-> Cardinality(merged[j])])]

\* total_created after one batch: the count is added when the statement ran,
\* nothing is added when it raised.
AccumulateAll(total, count, failed) == total + count
Accumulate(total, count, failed) == IF failed THEN total ELSE total + count

\* A batch loop that ends at the first statement that raises.
RECURSIVE NodeBatchLoopAbort(_, _, _, _, _, _)
NodeBatchLoopAbort(r, label, batches, dyn, failing, b) ==
    IF b > Len(batches) \/ b \in failing THEN r
    ELSE LET ran == RunNodeQuery([store |-> r.store, count |-> 0], label, batches[b], dyn)
         IN NodeBatchLoopAbort(
              [store |-> ran.store,
               total |-> r.total + ran.count,
               reports |-> Append(r.reports, ran.count)],
              label, batches, dyn, failing, b + 1)

\* The batch loop of batch_create_nodes from batch b on; failing is the set of
\* batch numbers whose statement raises.  r = [store, total, reports].
RECURSIVE NodeBatchLoop(_, _, _, _, _, _)
NodeBatchLoop(r, label, batches, dyn, failing, b) ==
    IF b > Len(batches) THEN r
    ELSE LET raised == b \in failing
                       \/ (dyn /\ \E i \in DOMAIN batches[b] :
                                     "_label" \notin DOMAIN batches[b][i])
             ran == RunNodeQuery([store |-> r.store, count |-> 0], label, batches[b], dyn)
         IN NodeBatchLoop(
              [store |-> IF raised THEN r.store ELSE ran.store,
               total |-> Accumulate(r.total, ran.count, raised),
               reports |-> IF raised THEN r.reports ELSE Append(r.reports, ran.count)],
              label, batches, dyn, failing, b + 1)

\* Neo4jClient.batch_create_nodes(label, nodes, batch_size, dynamic_label).
batch_create_nodes(st, label, nodes, batch_size, dynamic_label, failing) ==
    IF nodes = <<>> THEN [store |-> st, total |-> 0, reports |-> <<>>]
    ELSE NodeBatchLoop([store |-> st, total |-> 0, reports |-> <<>>], label,
                       Batches(nodes, batch_size), dynamic_label, failing, 1)

RECURSIVE RelBatchLoop(_, _, _, _, _, _, _)
RelBatchLoop(r, rel_type, source_label, target_label, batches, failing, b) ==
    IF b > Len(batches) THEN r
    ELSE LET raised == b \in failing
             ran == RunRelQuery([store |-> r.store, count |-> 0], rel_type,
                                source_label, target_label, batches[b])
         IN RelBatchLoop(
              [store |-> IF raised THEN r.store ELSE ran.store,
               total |-> Accumulate(r.total, ran.count, raised),
               reports |-> IF raised THEN r.reports ELSE Append(r.reports, ran.count)],
              rel_type, source_label, target_label, batches, failing, b + 1)

\* Neo4jClient.batch_create_relationships(rel_type, source_label, target_label,
\* relationships, batch_size).
batch_create_relationships(st, rel_type, source_label, target_label, rels, batch_size, failing) ==
    IF rels = <<>> THEN [store |-> st, total |-> 0, reports |-> <<>>]
    ELSE RelBatchLoop([store |-> st, total |-> 0, reports |-> <<>>], rel_type,
                      source_label, target_label,
                      Batches(rels, batch_size), failing, 1)

\* ---------------------------------------------- materializer (importer.py)
\* The importer calls batch_create_nodes without dynamic_label (its default).
dynamic_label_default == FALSE

NodeCall(key, label, nodes) ==
    IF nodes = <<>> THEN <<>>
    ELSE <<[key |-> key, label |-> label, nodes |-> nodes,
            dynamic_label |-> dynamic_label_default]>>

EntityNodes(d) == [i \in DOMAIN d |-> EntityToNodeDict(d[i].val)]

\* _import_nodes without the test `if p is not None`: a placeholder goes into
\* the Publisher batch as a node that has its ID and nothing else.
NodeCallsUnfiltered(c) ==
    LET work_nodes == [i \in DOMAIN c.works |-> WorkToNodeDict(c.works[i].val)]
        pub_nodes == [i \in DOMAIN c.publishers |->
                        IF c.publishers[i].val = Placeholder
                        THEN ("id" :> c.publishers[i].key)
                        ELSE EntityToNodeDict(c.publishers[i].val)]
    IN NodeCall("works", "Work", work_nodes)
       \o NodeCall("authors", "Author", EntityNodes(c.authors))
       \o NodeCall("institutions", "Institution", EntityNodes(c.institutions))
       \o NodeCall("sources", "Source", EntityNodes(c.sources))
       \o NodeCall("topics", "Topic", EntityNodes(c.topics))
       \o NodeCall("publishers", "Publisher", pub_nodes)
       \o NodeCall("funders", "Funder", EntityNodes(c.funders))

\* The batch_create_nodes calls of _import_nodes on the collections c, in order.
NodeCalls(c) ==
    LET work_nodes == [i \in DOMAIN c.works |-> WorkToNodeDict(c.works[i].val)]
        fetched == SelectSeq(c.publishers, LAMBDA e : e.val # Placeholder)
    IN NodeCall("works", "Work", work_nodes)
       \o NodeCall("authors", "Author", EntityNodes(c.authors))
       \o NodeCall("institutions", "Institution", EntityNodes(c.institutions))
       \o NodeCall("sources", "Source", EntityNodes(c.sources))
       \o NodeCall("topics", "Topic", EntityNodes(c.topics))
       \o NodeCall("publishers", "Publisher", EntityNodes(fetched))
       \o NodeCall("funders", "Funder", EntityNodes(c.funders))

Edge(s, t) == [source_id |-> s, target_id |-> t]

\* The affiliation list uploaded as collected, repeats included.
DedupNone(rels) == rels

\* list({(r.source_id, r.target_id): r for r in rels}.values())
RECURSIVE Dedup(_)
Dedup(rels) ==
    IF rels = <<>> THEN <<>>
    ELSE LET init == SubSeq(rels, 1, Len(rels) - 1)
             last == rels[Len(rels)]
         IN IF last \in Range(init) THEN Dedup(init) ELSE Append(Dedup(init), last)

\* for work in works: for x in work.<field>: if x in <resolved>: Work -> x
WorkToRefs(c, field, resolved) ==
    ConcatAll([i \in DOMAIN c.works |->
        LET w == c.works[i].val
            xs == SelectSeq(w[field], LAMBDA x : Has(resolved, x))
        IN [j \in DOMAIN xs |-> Edge(w.id, xs[j])]])

\* AUTHORED without the test `author_id in self.authors`.
AuthoredRelsUnfiltered(c) ==
    ConcatAll([i \in DOMAIN c.works |->
        LET w == c.works[i].val
        IN [j \in DOMAIN w.author_ids |-> Edge(w.author_ids[j], w.id)]])
\* AUTHORED deduplicated by pair, as AFFILIATED_WITH is.
AuthoredRelsOnce(c) ==
    Dedup(ConcatAll([i \in DOMAIN c.works |->
        LET w == c.works[i].val
            xs == SelectSeq(w.author_ids, LAMBDA a : Has(c.authors, a))
        IN [j \in DOMAIN xs |-> Edge(xs[j], w.id)]]))

AuthoredRels(c) ==
    ConcatAll([i \in DOMAIN c.works |->
        LET w == c.works[i].val
            xs == SelectSeq(w.author_ids, LAMBDA a : Has(c.authors, a))
        IN [j \in DOMAIN xs |-> Edge(xs[j], w.id)]])

AffiliatedRels(c) ==
    ConcatAll([i \in DOMAIN c.works |->
        LET w == c.works[i].val
            insts == SelectSeq(w.institution_ids, LAMBDA x : Has(c.institutions, x))
        IN ConcatAll([j \in DOMAIN w.author_ids |->
               IF Has(c.authors, w.author_ids[j])
               THEN [k \in DOMAIN insts |-> Edge(w.author_ids[j], insts[k])]
               ELSE <<>>])])

PublishedRels(c) ==
    ConcatAll([i \in DOMAIN c.works |->
        LET w == c.works[i].val
        IN IF w.source_id # None /\ Has(c.sources, w.source_id)
           THEN <<Edge(w.id, w.source_id)>> ELSE <<>>])

\* if source.publisher_id and source.publisher_id in self.publishers
PublisherRels(c) ==
    ConcatAll([i \in DOMAIN c.sources |->
        LET s == c.sources[i].val
        IN IF s.publisher_id # None /\ Has(c.publishers, s.publisher_id)
           THEN <<Edge(s.id, s.publisher_id)>> ELSE <<>>])

RelCall(key, rel_type, source_label, target_label, rels) ==
    IF rels = <<>> THEN <<>>
    ELSE <<[key |-> key, rel_type |-> rel_type, source_label |-> source_label,
            target_label |-> target_label, rels |-> rels]>>

\* The batch_create_relationships calls of _import_relationships, in order.
RelCalls(c) ==
    RelCall("authored", "AUTHORED", "Author", "Work", AuthoredRels(c))
    \o RelCall("affiliated_with", "AFFILIATED_WITH", "Author", "Institution",
               Dedup(AffiliatedRels(c)))
    \o RelCall("published_in", "PUBLISHED_IN", "Work", "Source", PublishedRels(c))
    \o RelCall("cites", "CITES", "Work", "Work",
               WorkToRefs(c, "referenced_work_ids", c.works))
    \o RelCall("has_topic", "HAS_TOPIC", "Work", "Topic",
               WorkToRefs(c, "topic_ids", c.topics))
    \o RelCall("funded_by", "FUNDED_BY", "Work", "Funder",
               WorkToRefs(c, "funder_ids", c.funders))
    \o RelCall("published_by", "PUBLISHED_BY", "Source", "Publisher", PublisherRels(c))

\* The statements of a call list that can fail: [key, batch].
BatchSites(calls, field) ==
    UNION {[key : {calls[i].key},
            batch : 1..Len(Batches(calls[i][field], BatchSize))] : i \in DOMAIN calls}
FailingOf(failing, key) == {f.batch : f \in {g \in failing : g.key = key}}

\* Run the node calls one after another.  r = [store, counts, log].
RECURSIVE RunNodeCalls(_, _, _)
RunNodeCalls(r, calls, failing) ==
    IF calls = <<>> THEN r
    ELSE LET c == Head(calls)
             out == batch_create_nodes(r.store, c.label, c.nodes, BatchSize,
                                       c.dynamic_label, FailingOf(failing, c.key))
         IN RunNodeCalls(
              [store |-> out.store,
               counts |-> (c.key :> out.total) @@ r.counts,
               log |-> Append(r.log,
                          [op |-> "batch_create_nodes", key |-> c.key,
                           label |-> c.label, batch |-> c.nodes,
                           dynamic_label |-> c.dynamic_label,
                           reports |-> out.reports])],
              Tail(calls), failing)

RECURSIVE RunRelCalls(_, _, _)
RunRelCalls(r, calls, failing) ==
    IF calls = <<>> THEN r
    ELSE LET c == Head(calls)
             out == batch_create_relationships(r.store, c.rel_type, c.source_label,
                        c.target_label, c.rels, BatchSize, FailingOf(failing, c.key))
         IN RunRelCalls(
              [store |-> out.store,
               counts |-> (c.key :> out.total) @@ r.counts,
               log |-> Append(r.log,
                          [op |-> "batch_create_relationships", key |-> c.key,
                           rel_type |-> c.rel_type, source_label |-> c.source_label,
                           target_label |-> c.target_label, batch |-> c.rels,
                           reports |-> out.reports])],
              Tail(calls), failing)

\* ------------------------------------------------------------------- state
VARIABLES
    pc,            \* where import_from_query stands
    args,          \* the arguments of the call
    round,         \* expansion rounds finished
    works, authors, institutions, sources, topics, publishers, funders,
    store,         \* the graph store
    node_counts,   \* what _import_nodes returned
    counts,        \* what import_from_query returned
    faults,        \* collaborator faults so far
    log,           \* the calls made to the collaborators, with their replies
    entered,       \* for each known work, the round in which it was added
    client,        \* Neo4jClient: its _driver, the outcome of the last access
    call,          \* a component called on its own: the operation and its inputs
    ret            \* what that call returned (Pending before it has run)

vars == <<pc, args, round, works, authors, institutions, sources, topics,
          publishers, funders, store, node_counts, counts, faults, log, entered,
          client, call, ret>>
\* The components beside the importer: they are left alone by an import run.
beside == <<client, call, ret>>
collections == <<works, authors, institutions, sources, topics, publishers, funders>>

Coll == [works |-> works, authors |-> authors, institutions |-> institutions,
         sources |-> sources, topics |-> topics, publishers |-> publishers,
         funders |-> funders]

\* A client whose connect() has succeeded; no component call in progress.
Connected == [driver |-> "open", outcome |-> None]
NoCall == [op |-> None]
Pending == [pending |-> TRUE]
NoArgs == [query |-> None, limit |-> 0, expand_depth |-> 0, kwargs |-> {}]
EmptyCounts == [k \in {} |-> 0]

\* A new importer and an empty store.
EmptyStore == [nodes |-> {}, rels |-> {}, next |-> 1, constraints |-> 0, indexes |-> 0]
\* The importer before import_from_query, beside the store it writes to.
IdleInit ==
    /\ pc = "idle"
    /\ args = NoArgs
    /\ round = 0
    /\ works = <<>> /\ authors = <<>> /\ institutions = <<>> /\ sources = <<>>
    /\ topics = <<>> /\ publishers = <<>> /\ funders = <<>>
    /\ node_counts = EmptyCounts
    /\ counts = EmptyCounts
    /\ faults = 0
    /\ log = <<>>
    /\ entered = [w \in {} |-> 0]
ImporterInit == IdleInit /\ store = EmptyStore

Init ==
    /\ ImporterInit
    /\ client = Connected
    /\ call = NoCall
    /\ ret = Pending

\* The keyword arguments a caller may add (cli.py passes both).
ExtraKwargs == {"skip_abstracts", "generate_embeddings"}

Entered(old, ws, n) ==
    [w \in Keys(ws) |-> IF w \in DOMAIN old THEN old[w] ELSE n]

\* import_from_query(query, limit, expand_depth, **kwargs): a keyword the
\* signature does not name raises TypeError before the body runs; otherwise
\* step 1, the search and the seeding of the Work collection.
ImportFromQuery ==
    /\ pc = "idle"
    /\ \E limit \in 1..MaxLimit, depth \in 0..MaxDepth, kwargs \in SUBSET ExtraKwargs :
         /\ args' = [query |-> "q", limit |-> limit, expand_depth |-> depth,
                     kwargs |-> kwargs]
         /\ IF kwargs # {}
            THEN /\ pc' = "TypeError"
                 /\ UNCHANGED <<works, log, entered, faults>>
            ELSE \E ids \in DistinctSeqs(WorkIds, limit) :
                 \E F \in SubsetsUpTo(SearchFaults(ids), MaxFaults - faults) :
                   LET initial_works == SearchResult(ids, F) IN
                   /\ Len(initial_works) <= limit
                   /\ faults' = faults + Cardinality(F)
                   /\ pc' = "expand"
                   /\ works' = AddWorks(works, initial_works)
                   /\ entered' = Entered(entered, works', 0)
                   /\ log' = Append(log, [op |-> "search_works", query |-> "q",
                                          limit |-> limit, result |-> initial_works])
    /\ UNCHANGED <<round, authors, institutions, sources, topics, publishers,
                   funders, store, node_counts, counts>>
    /\ UNCHANGED beside

\* A loop that does not stop at expand_depth.
ExpandRelationshipsOn ==
    /\ pc = "expand"
    /\ round < MaxDepth
    /\ \E F \in SubsetsUpTo(RoundFaults(Coll), MaxFaults - faults) :
         \E r \in {ExpandRound(Coll, F)} :
         /\ r.valid
         /\ works' = r.coll.works
         /\ authors' = r.coll.authors
         /\ institutions' = r.coll.institutions
         /\ sources' = r.coll.sources
         /\ topics' = r.coll.topics
         /\ publishers' = r.coll.publishers
         /\ funders' = r.coll.funders
         /\ faults' = faults + Cardinality(F)
         /\ log' = Append(log, [op |-> "expand", n |-> round + 1]) \o r.calls
         /\ entered' = Entered(entered, r.coll.works, round + 1)
    /\ round' = round + 1
    /\ UNCHANGED <<pc, args, store, node_counts, counts>>
    /\ UNCHANGED beside

\* Step 2: one pass of the loop, self._expand_relationships().
ExpandRelationships ==
    /\ pc = "expand"
    /\ round < args.expand_depth
    /\ \E F \in SubsetsUpTo(RoundFaults(Coll), MaxFaults - faults) :
         \E r \in {ExpandRound(Coll, F)} :
         /\ r.valid
         /\ works' = r.coll.works
         /\ authors' = r.coll.authors
         /\ institutions' = r.coll.institutions
         /\ sources' = r.coll.sources
         /\ topics' = r.coll.topics
         /\ publishers' = r.coll.publishers
         /\ funders' = r.coll.funders
         /\ faults' = faults + Cardinality(F)
         /\ log' = Append(log, [op |-> "expand", n |-> round + 1]) \o r.calls
         /\ entered' = Entered(entered, r.coll.works, round + 1)
    /\ round' = round + 1
    /\ UNCHANGED <<pc, args, store, node_counts, counts>>
    /\ UNCHANGED beside

\* Step 3a taken without waiting for the loop to end.
CreateConstraintsEarly ==
    /\ pc = "expand"
    /\ \E failing \in 0..(MaxFaults - faults) :
         /\ failing <= Len(ENTITY_TYPES)
         /\ store' = [store EXCEPT !.constraints = Len(ENTITY_TYPES) - failing]
         /\ faults' = faults + failing
    /\ pc' = "indexes"
    /\ log' = Append(log, [op |-> "create_constraints"])
    /\ UNCHANGED <<args, round, collections, node_counts, counts, entered>>
    /\ UNCHANGED beside

\* Step 3a: self.neo4j.create_constraints(), once the loop has ended: one
\* statement per entity type, of which `failing` raise and are skipped.
CreateConstraints ==
    /\ pc = "expand"
    /\ round >= args.expand_depth
    /\ \E failing \in 0..(MaxFaults - faults) :
         /\ failing <= Len(ENTITY_TYPES)
         /\ store' = [store EXCEPT !.constraints = Len(ENTITY_TYPES) - failing]
         /\ faults' = faults + failing
    /\ pc' = "indexes"
    /\ log' = Append(log, [op |-> "create_constraints"])
    /\ UNCHANGED <<args, round, collections, node_counts, counts, entered>>
    /\ UNCHANGED beside

\* Step 3b: self.neo4j.create_indexes().
CreateIndexes ==
    /\ pc = "indexes"
    /\ \E failing \in 0..(MaxFaults - faults) :
         /\ failing <= IndexStatements
         /\ store' = [store EXCEPT !.indexes = IndexStatements - failing]
         /\ faults' = faults + failing
    /\ pc' = "nodes"
    /\ log' = Append(log, [op |-> "create_indexes"])
    /\ UNCHANGED <<args, round, collections, node_counts, counts, entered>>
    /\ UNCHANGED beside

\* Step 4: node_counts = self._import_nodes().
ImportNodes ==
    /\ pc = "nodes"
    /\ LET calls == NodeCalls(Coll) IN
       \E failing \in SubsetsUpTo(BatchSites(calls, "nodes"), MaxFaults - faults) :
         \E r \in {RunNodeCalls([store |-> store, counts |-> EmptyCounts, log |-> log],
                                calls, failing)} :
         /\ store' = r.store
         /\ node_counts' = r.counts
         /\ log' = r.log
         /\ faults' = faults + Cardinality(failing)
    /\ pc' = "rels"
    /\ UNCHANGED <<args, round, collections, counts, entered>>
    /\ UNCHANGED beside

\* Step 5 and the return: rel_counts = self._import_relationships();
\* counts = {**node_counts, **rel_counts}.
ImportRelationships ==
    /\ pc = "rels"
    /\ LET calls == RelCalls(Coll) IN
       \E failing \in SubsetsUpTo(BatchSites(calls, "rels"), MaxFaults - faults) :
         \E r \in {RunRelCalls([store |-> store, counts |-> EmptyCounts, log |-> log],
                               calls, failing)} :
         /\ store' = r.store
         /\ counts' = r.counts @@ node_counts
         /\ log' = r.log
         /\ faults' = faults + Cardinality(failing)
    /\ pc' = "done"
    /\ UNCHANGED <<args, round, collections, node_counts, entered>>
    /\ UNCHANGED beside

Next ==
    \/ ImportFromQuery
    \/ ExpandRelationships
    \/ CreateConstraints
    \/ CreateIndexes
    \/ ImportNodes
    \/ ImportRelationships

Spec == Init /\ [][Next]_vars

\* ================================================================ claims
\* What the log shows.
LogOf(op) == SelectSeq(log, LAMBDA e : e.op = op)
FetchesOf(kind) == SelectSeq(log, LAMBDA e : e.op = "fetch" /\ e.kind = kind)
ResultIds(e) == {e.result[i].id : i \in DOMAIN e.result}
\* The records handed to _add_works so far, in order.
AddedWorks ==
    ConcatAll([i \in DOMAIN log |->
        IF log[i].op = "search_works" \/ (log[i].op = "fetch" /\ log[i].kind = "Work")
        THEN log[i].result ELSE <<>>])
\* The IDs of a kind the bibliographic source has delivered a record for.
ReturnedIds(kind) ==
    UNION {ResultIds(log[i]) :
        i \in {j \in DOMAIN log :
                 \/ (log[j].op = "fetch" /\ log[j].kind = kind)
                 \/ (log[j].op = "search_works" /\ kind = "Work")}}
\* The batch submitted under a counts key (empty when none was submitted).
Submitted(key) ==
    LET es == SelectSeq(log, LAMBDA e :
                  e.op \in {"batch_create_nodes", "batch_create_relationships"}
                  /\ e.key = key)
    IN IF es = <<>> THEN <<>> ELSE es[1].batch
ReportsOf(key) ==
    LET es == SelectSeq(log, LAMBDA e :
                  e.op \in {"batch_create_nodes", "batch_create_relationships"}
                  /\ e.key = key)
    IN IF es = <<>> THEN <<>> ELSE es[1].reports
Occurrences(seq, x) == Cardinality({i \in DOMAIN seq : seq[i] = x})

\* C1: every edge of every relationship batch submitted to storage has a source
\* ID and a target ID for which the bibliographic source delivered a record of
\* the corresponding kind.  (Violated: PUBLISHED_BY is tested against the keys
\* of publishers, which include the placeholders never filled.)
C1_EndpointsResolved ==
    \A i \in DOMAIN log :
        log[i].op = "batch_create_relationships" =>
            \A j \in DOMAIN log[i].batch :
                /\ log[i].batch[j].source_id \in ReturnedIds(log[i].source_label)
                /\ log[i].batch[j].target_id \in ReturnedIds(log[i].target_label)

\* C2: the Work collection holds exactly one entry per work ID handed to
\* _add_works, and that entry is the first record handed in with the ID.
C2_FirstWriteWins ==
    LET added == AddedWorks
        ids == [i \in DOMAIN added |-> added[i].id]
    IN /\ Keys(works) = Range(ids)
       /\ Len(works) = Cardinality(Keys(works))
       /\ \A i \in DOMAIN works :
            \E j \in DOMAIN added :
                /\ ids[j] = works[i].key
                /\ \A k \in 1..(j - 1) : ids[k] # works[i].key
                /\ works[i].val = added[j]
\* A(v1), B, A(v2) were handed in, in that order: A is held as v1.
C2_Witness ==
    LET added == AddedWorks IN
    \E i, j, k \in DOMAIN added :
        /\ i < j /\ j < k
        /\ added[i].id = added[k].id
        /\ added[i] # added[k]
        /\ added[j].id # added[i].id
        /\ \A h \in 1..(i - 1) : added[h].id # added[i].id
        /\ Val(works, added[i].id) = added[i]
        /\ Len(works) < Len(added)

\* Every author, institution, source, topic, funder and referenced-work ID of
\* every known work is a key of its collection.
AllResolved ==
    \A i \in DOMAIN works :
        LET w == works[i].val IN
        /\ Range(w.author_ids) \subseteq Keys(authors)
        /\ Range(w.institution_ids) \subseteq Keys(institutions)
        /\ (w.source_id # None => w.source_id \in Keys(sources))
        /\ Range(w.topic_ids) \subseteq Keys(topics)
        /\ Range(w.funder_ids) \subseteq Keys(funders)
        /\ Range(w.referenced_work_ids) \subseteq Keys(works)
\* No publisher is held as a placeholder only.
PublishersResolved == \A i \in DOMAIN publishers : publishers[i].val # Placeholder
\* The step is a round that issued no fetch and changed no collection.
NoOpRound ==
    /\ UNCHANGED collections
    /\ log' = Append(log, [op |-> "expand", n |-> round'])

\* C3 (as stated): a round run when every author, institution, source, topic,
\* funder and referenced-work ID of every known work is resolved issues no
\* fetch call, publishers included, and leaves the seven collections unchanged.
C3_AsStated == [][(round' = round + 1 /\ AllResolved) => NoOpRound]_vars
\* C3 (amended): a round run when every author, institution, source, topic,
\* funder and referenced-work ID of every known work is resolved, and no
\* publisher is held as an unfilled placeholder, issues no fetch call and
\* leaves the seven collections unchanged.
C3_EmptyFrontierNoOp ==
    [][(round' = round + 1 /\ AllResolved /\ PublishersResolved) => NoOpRound]_vars
\* The second round, run after a first round that resolved everything, has
\* logged nothing but its own start.
C3_Witness ==
    /\ round = 2
    /\ log[Len(log)].op = "expand"
    /\ log[Len(log) - 1].op = "fetch"
    /\ authors # <<>>
    /\ AllResolved /\ PublishersResolved

\* C4: no stored Work node has a property named _label, and every stored Work
\* node carries the sub-type label its _label field named.  (Violated: the
\* importer never asks for the dynamic label, so the plain query writes the
\* whole property map, _label included, and adds no label.)
C4_LabelAttachedNotPersisted ==
    \A n \in store.nodes :
        "Work" \in n.labels =>
            /\ "_label" \notin DOMAIN n.props
            /\ \A i \in DOMAIN works :
                 works[i].key = n.props["id"] =>
                     WorkToNodeDict(works[i].val)["_label"] \in n.labels

\* C5: a run called with skip_abstracts (or generate_embeddings) is accepted,
\* and once it has returned no stored Work node has an abstract.  (Violated:
\* import_from_query takes neither keyword, so the call raises TypeError.)
C5_SkipAbstractsAccepted ==
    args.kwargs # {} =>
        /\ pc # "TypeError"
        /\ pc = "done" =>
             \A n \in store.nodes :
                 "Work" \in n.labels =>
                     ("abstract" \notin DOMAIN n.props \/ n.props["abstract"] = None)

\* The place of a logged call in the order of import_from_query.
Rank(e) ==
    CASE e.op = "search_works" -> 0
      [] e.op \in {"expand", "fetch"} -> 1
      [] e.op = "create_constraints" -> 2
      [] e.op = "create_indexes" -> 3
      [] e.op = "batch_create_nodes" -> 4
      [] e.op = "batch_create_relationships" -> 5

\* C6: a run makes its calls in a fixed order: exactly one search, first, with
\* the caller's (query, limit); then the rounds 1, 2, ... one after another,
\* exactly expand_depth of them before anything else follows; then
\* create_constraints once and create_indexes once; then the node batches; and
\* the relationship batches after every node batch.
C6_FixedOrder ==
    pc \notin {"idle", "TypeError"} =>
        LET rounds == LogOf("expand")
            ranks == [i \in DOMAIN log |-> Rank(log[i])]
            constraints == Occurrences(ranks, 2)
            indexes == Occurrences(ranks, 3)
        IN
        /\ Occurrences(ranks, 0) = 1
        /\ log[1].op = "search_works"
        /\ log[1].query = args.query /\ log[1].limit = args.limit
        /\ \A i \in 1..(Len(ranks) - 1) : ranks[i] <= ranks[i + 1]
        /\ \A i \in DOMAIN rounds : rounds[i].n = i
        /\ Len(rounds) <= args.expand_depth
        /\ (\E i \in DOMAIN ranks : ranks[i] >= 2) => Len(rounds) = args.expand_depth
        /\ constraints <= 1
        /\ indexes <= 1
        /\ (\E i \in DOMAIN ranks : ranks[i] >= 3) => constraints = 1
        /\ (\E i \in DOMAIN ranks : ranks[i] >= 4) => indexes = 1
        /\ pc = "done" => /\ Len(rounds) = args.expand_depth
                          /\ constraints = 1
                          /\ indexes = 1
\* A run of depth 2 has returned after node and relationship batches.
C6_Witness ==
    /\ pc = "done"
    /\ args.expand_depth = 2
    /\ LogOf("batch_create_nodes") # <<>>
    /\ LogOf("batch_create_relationships") # <<>>
    /\ \E i \in DOMAIN log : log[i].op = "fetch" /\ log[i - 1].op = "expand" /\ log[i - 1].n = 2

\* The seed works, and the works within n citation hops of a set of works.
Seeds == ResultIds(log[1])
Cited(x) == Range(CatalogWork(x, 1).referenced_work_ids)
RECURSIVE Reach(_, _)
Reach(S, n) ==
    IF n = 0 THEN S
    ELSE LET R == Reach(S, n - 1) IN R \cup UNION {Cited(x) : x \in R}
\* Every work fetch so far returned a record for every ID it asked for.
SourceComplete ==
    \A i \in DOMAIN log :
        (log[i].op = "fetch" /\ log[i].kind = "Work") =>
            Range(log[i].ids) \subseteq ResultIds(log[i])

\* C7: while the source returns every requested work, the Work collection
\* after n rounds is exactly the set of works within n citation hops of the
\* seeds; each work entered in the round equal to its hop distance; after a
\* run of depth d the collection is the set of works within d hops.
C7_BreadthFirst ==
    (log # <<>> /\ SourceComplete) =>
        /\ Keys(works) = Reach(Seeds, round)
        /\ \A w \in Keys(works) :
             /\ w \in Reach(Seeds, entered[w])
             /\ entered[w] > 0 => w \notin Reach(Seeds, entered[w] - 1)
        /\ pc = "done" => Keys(works) = Reach(Seeds, args.expand_depth)
\* A run of depth 2 has returned with a work two hops from the seeds, while
\* a run of depth 1 from the same seed would not hold it.
C7_Witness ==
    /\ pc = "done" /\ SourceComplete
    /\ args.expand_depth = 2
    /\ \E w \in Keys(works) : entered[w] = 2 /\ w \notin Reach(Seeds, 1)

\* C8: no edge of the AUTHORED batch starts at an author ID for which no
\* author fetch, in any round, returned a record.
C8_UnfetchedAuthorNoEdge ==
    \A a \in AuthorIds :
        a \notin ReturnedIds("Author") =>
            \A i \in DOMAIN Submitted("authored") :
                Submitted("authored")[i].source_id # a
\* A run has returned, a known work names an author never delivered, and the
\* AUTHORED batch was submitted with the other authors' edges.
C8_Witness ==
    /\ pc = "done"
    /\ Submitted("authored") # <<>>
    /\ \E i \in DOMAIN works :
         \E a \in Range(works[i].val.author_ids) :
             /\ a \notin ReturnedIds("Author")
             /\ \E j \in DOMAIN log : log[j].op = "fetch" /\ log[j].kind = "Author"
                                      /\ a \in Range(log[j].ids)

\* C9: once the run has returned, the AUTHORED batch holds, for every work w
\* and author a, as many edges a -> w as a occurs among the author IDs of w
\* when both are held, and none otherwise; the PUBLISHED_IN batch one edge
\* w -> s when s is the held source of the held work w, and none otherwise; the
\* CITES batch as many edges w -> v as v occurs among the references of w when
\* both are held, and none otherwise.  With W1 the only work and A1, I1, S1
\* held: 1 AUTHORED, 1 AFFILIATED_WITH, 1 PUBLISHED_IN and 0 CITES edges.
C9_OneEdgePerReference ==
    pc = "done" =>
        /\ \A w \in WorkIds : \A a \in AuthorIds :
             Occurrences(Submitted("authored"), Edge(a, w)) =
                 IF Has(works, w) /\ Has(authors, a)
                 THEN Occurrences(Val(works, w).author_ids, a) ELSE 0
        /\ Range(Submitted("authored")) \subseteq
               {Edge(a, w) : a \in AuthorIds, w \in WorkIds}
        /\ \A w \in WorkIds : \A src \in SourceIds :
             Occurrences(Submitted("published_in"), Edge(w, src)) =
                 IF Has(works, w) /\ Has(sources, src) /\ Val(works, w).source_id = src
                 THEN 1 ELSE 0
        /\ Range(Submitted("published_in")) \subseteq
               {Edge(w, src) : w \in WorkIds, src \in SourceIds}
        /\ \A w \in WorkIds : \A v \in WorkIds :
             Occurrences(Submitted("cites"), Edge(w, v)) =
                 IF Has(works, w) /\ Has(works, v)
                 THEN Occurrences(Val(works, w).referenced_work_ids, v) ELSE 0
        /\ Range(Submitted("cites")) \subseteq
               {Edge(w, v) : w \in WorkIds, v \in WorkIds}
        /\ (Keys(works) = {"W1"} /\ Has(authors, "A1") /\ Has(institutions, "I1")
              /\ Has(sources, "S1")) =>
               /\ Len(Submitted("authored")) = 1
               /\ Len(Submitted("affiliated_with")) = 1
               /\ Len(Submitted("published_in")) = 1
               /\ Len(Submitted("cites")) = 0
\* The scenario: W1 alone, with A1, I1 and S1 held, after the run has returned.
C9_Witness ==
    /\ pc = "done"
    /\ Keys(works) = {"W1"}
    /\ Has(authors, "A1") /\ Has(institutions, "I1") /\ Has(sources, "S1")
    /\ Submitted("authored") = <<Edge("A1", "W1")>>
    /\ Submitted("cites") = <<>>

\* The counts keys under which a batch call was made.
CalledKeys ==
    {log[i].key : i \in {j \in DOMAIN log :
        log[j].op \in {"batch_create_nodes", "batch_create_relationships"}}}

\* C10: the counts mapping returned has one key per batch call made, and the
\* value under each key is the sum of the counts storage reported for the
\* batches of that call that ran; a batch that raised adds nothing.
C10_CountsAreReportedSums ==
    pc = "done" =>
        /\ DOMAIN counts = CalledKeys
        /\ \A k \in DOMAIN counts : counts[k] = SumSeq(ReportsOf(k))
\* A run has returned with a call one of whose batches raised: its count is
\* short of the number of items submitted.
C10_Witness ==
    /\ pc = "done"
    /\ \E k \in DOMAIN counts :
         /\ Len(ReportsOf(k)) < Len(Batches(Submitted(k), BatchSize))
         /\ Len(ReportsOf(k)) >= 1
         /\ counts[k] < Len(Submitted(k))

\* Every step after a failure was still taken: the rounds were all run, a
\* batch call was made for every collection that holds a record, and of the
\* batches of a call only those whose statement raised are missing a report.
AllAttempted ==
    /\ Len(LogOf("expand")) = args.expand_depth
    /\ Len(LogOf("create_constraints")) = 1 /\ Len(LogOf("create_indexes")) = 1
    /\ (works # <<>>) => "works" \in DOMAIN counts
    /\ (authors # <<>>) => "authors" \in DOMAIN counts
    /\ (institutions # <<>>) => "institutions" \in DOMAIN counts
    /\ (sources # <<>>) => "sources" \in DOMAIN counts
    /\ (topics # <<>>) => "topics" \in DOMAIN counts
    /\ (funders # <<>>) => "funders" \in DOMAIN counts
    /\ \A k \in CalledKeys :
         Len(ReportsOf(k)) >= Len(Batches(Submitted(k), BatchSize)) - faults

\* The stage that follows a stage of import_from_query.
StageAfter(stage) ==
    CASE stage = "idle" -> "expand"
      [] stage = "expand" -> "indexes"
      [] stage = "indexes" -> "nodes"
      [] stage = "nodes" -> "rels"
      [] stage = "rels" -> "done"
\* The step ends a round or a stage as a step without a failure does.
StepCompletes ==
    \/ pc' = pc /\ pc = "expand" /\ round' = round + 1
    \/ pc' = StageAfter(pc) /\ round' = round

\* C11: a step of an import run in which a fetch or a storage statement
\* fails completes like any other step and hands over to the next one; and
\* when the run returns, every round, every batch but the failed ones and
\* every later step has been run and the counts mapping holds a count for
\* every batch call made.
C11_FailuresAbsorbed ==
    /\ [][faults' > faults => StepCompletes]_vars
    /\ [](pc = "done" => (AllAttempted /\ DOMAIN counts = CalledKeys))
\* A run has returned although the first batch of its three Work nodes
\* raised: the second batch ran and the relationship batches followed.
C11_Witness ==
    /\ pc = "done"
    /\ faults >= 1
    /\ Len(Submitted("works")) = 3
    /\ ReportsOf("works") = <<1>>
    /\ counts["works"] = 1
    /\ LogOf("batch_create_relationships") # <<>>

\* ============================================== components on their own
\* What a call returned.
Returned(v) == [pending |-> FALSE, value |-> v]
\* The importer is not running while a component is called on its own.
importer == <<pc, args, round, works, authors, institutions, sources, topics,
              publishers, funders, store, node_counts, counts, faults, log, entered>>

\* ------------------------------------------------- strings (models.py)
\* A Python value that is None or a string; a string is its characters.
PyNone == [isnone |-> TRUE, s |-> <<>>]
Str(chars) == [isnone |-> FALSE, s |-> chars]
\* `not x` for such a value: None and "" are falsy.
Falsy(x) == x.isnone \/ x.s = <<>>
\* chars.split('/')[-1]: what follows the last '/'.
LastSegment(chars) ==
    LET slashes == {i \in DOMAIN chars : chars[i] = "/"}
        last == CHOOSE i \in slashes : \A j \in slashes : j <= i
    IN SubSeq(chars, last + 1, Len(chars))
\* models.extract_openalex_id(url)
extract_openalex_id(url) ==
    IF Falsy(url) THEN PyNone
    ELSE IF "/" \in Range(url.s) THEN Str(LastSegment(url.s))
    ELSE url

\* --------------------------------- fetch_<kind>_by_ids (openalex_client.py)
\* The chunk size of the fetches (batch_size = 50 in the source, scaled) and
\* the longest ID list fetched.
ChunkSize == 2
MaxIds == 4
\* The n IDs of a request, and the URL under which the API names an ID.
IdTokens == <<"1", "2", "3", "4", "5", "6">>
RequestIds(n) == [i \in 1..n |-> IdTokens[i]]
UrlOf(id) == Str(<<"o", "/", id>>)
\* What the API holds for a requested ID: a record ("ok"), a record without
\* an id ("noid"), a record whose id ends in '/' ("slash"), or none ("absent").
ReplyKinds == {"ok", "noid", "slash", "absent"}
RawRecord(id, what) ==
    [id |-> CASE what = "ok" -> UrlOf(id)
              [] what = "noid" -> PyNone
              [] what = "slash" -> Str(<<"o", "/">>)]
\* <Kind>().filter(openalex_id=...).get() for a chunk: the records held for
\* its IDs.  first is the position of the chunk's first ID in the request.
ChunkResults(chunk, first, reply) ==
    LET held == SelectSeq([i \in DOMAIN chunk |-> first + i - 1],
                          LAMBDA p : reply[p] # "absent")
    IN [i \in DOMAIN held |-> RawRecord(chunk[held[i] - first + 1], reply[held[i]])]
\* <Kind>.from_openalex(data): raises ValueError when data has no id.
from_openalex(data) ==
    LET id == extract_openalex_id(data.id)
    IN IF Falsy(id) THEN [raised |-> TRUE, id |-> <<>>]
       ELSE [raised |-> FALSE, id |-> id.s]
\* The same loop without its try: the first record that fails to parse ends
\* the chunk.
RECURSIVE ParseRecordsUnguarded(_, _)
ParseRecordsUnguarded(acc, results) ==
    IF results = <<>> THEN acc
    ELSE LET rec == from_openalex(Head(results))
         IN IF rec.raised THEN acc
            ELSE ParseRecordsUnguarded(Append(acc, [id |-> rec.id]), Tail(results))
\* for data in results: try: append(from_openalex(data)) except: warn
RECURSIVE ParseRecords(_, _)
ParseRecords(acc, results) ==
    IF results = <<>> THEN acc
    ELSE LET rec == from_openalex(Head(results))
         IN ParseRecords(IF rec.raised THEN acc ELSE Append(acc, [id |-> rec.id]),
                         Tail(results))
\* for i in range(0, len(ids), batch_size): try: get, parse except: error
RECURSIVE ChunkLoop(_, _, _, _, _)
ChunkLoop(acc, chunks, reply, failing, c) ==
    IF c > Len(chunks) THEN acc
    ELSE ChunkLoop(
           IF c \in failing THEN acc
           ELSE ParseRecords(acc, ChunkResults(chunks[c], (c - 1) * ChunkSize + 1, reply)),
           chunks, reply, failing, c + 1)
\* OpenAlexClient.fetch_<kind>_by_ids(ids), the API answering by reply and
\* the requests of the chunks in failing raising.
fetch_by_ids(ids, reply, failing) ==
    IF ids = <<>> THEN <<>>
    ELSE ChunkLoop(<<>>, Batches(ids, ChunkSize), reply, failing, 1)

\* The calls of fetch_by_ids: an ID list, an answer per ID, failing chunks.
FetchCalls ==
    UNION {[op : {"fetch_by_ids"}, ids : {RequestIds(n)},
            reply : [1..n -> ReplyKinds],
            failing : SUBSET (1..((n + ChunkSize - 1) \div ChunkSize))] :
           n \in 0..MaxIds}
FetchInit ==
    /\ ImporterInit
    /\ client = Connected
    /\ call \in FetchCalls
    /\ ret = Pending
FetchReturns ==
    /\ call.op = "fetch_by_ids"
    /\ ret = Pending
    /\ ret' = Returned(fetch_by_ids(call.ids, call.reply, call.failing))
    /\ UNCHANGED <<importer, client, call>>
FetchNext == FetchReturns
FetchSpec == FetchInit /\ [][FetchNext]_vars

\* The chunk a position of the request falls in.
ChunkOf(p) == ((p - 1) \div ChunkSize) + 1
\* C12: fetch_by_ids returns, in request order, one record for each requested
\* ID for which the API holds a record with a resolvable id and whose chunk
\* request did not fail, and nothing else: a failed chunk and a record
\* without id take nothing away from the other chunks and records.
C12_BestEffortPartial ==
    (call.op = "fetch_by_ids" /\ ret # Pending) =>
        LET kept == SelectSeq([p \in DOMAIN call.ids |-> p],
                        LAMBDA p : call.reply[p] = "ok" /\ ChunkOf(p) \notin call.failing)
        IN ret.value = [i \in DOMAIN kept |-> [id |-> <<call.ids[kept[i]]>>]]
\* A fetch of two chunks has returned: the first chunk's request failed, the
\* second chunk held a record without id before a good one, which is returned.
C12_Witness ==
    /\ call.op = "fetch_by_ids" /\ ret # Pending
    /\ Len(call.ids) = 2 * ChunkSize
    /\ call.failing = {1}
    /\ call.reply[ChunkSize + 1] = "noid"
    /\ call.reply[ChunkSize + 2] = "ok"
    /\ ret.value = <<[id |-> <<call.ids[ChunkSize + 2]>>]>>

\* ------------------------------------------ rank fusion (search.py)
\* The most hits a branch returns, the work IDs and scores of the hits, the
\* (vector_weight, fulltext_weight) pairs and the values of k tried.
MaxHits == 2
HitIds == WorkIds
HitScores == {1, 2}
Weights == {<<1, 0>>, <<0, 1>>, <<1, 1>>, <<1, 2>>}
KValues == {0, 60}
\* The hit maps of a branch: dicts from work ID to score, in arrival order.
HitMaps ==
    UNION {{[i \in DOMAIN ids |-> [key |-> ids[i], val |-> sc[i]]] :
                sc \in [DOMAIN ids -> HitScores]} :
           ids \in DistinctSeqs(HitIds, MaxHits)}
\* The position of item i of a dict after sorted(d.items(), key=score,
\* reverse=True): behind the higher scores and the equal scores that came
\* before it (the sort is stable).
RankOf(d, i) ==
    1 + Cardinality({j \in DOMAIN d : d[j].val > d[i].val})
      + Cardinality({j \in DOMAIN d : j < i /\ d[j].val = d[i].val})
\* The same sort without reverse=True.
SortedAsc(d) == [r \in DOMAIN d |-> d[CHOOSE i \in DOMAIN d : RankOf(d, i) = Len(d) + 1 - r]]
SortedDesc(d) == [r \in DOMAIN d |-> d[CHOOSE i \in DOMAIN d : RankOf(d, i) = r]]
\* Scores are kept exact: weight / (k + rank) is held as its numerator over
\* the common denominator (k + 1) * ... * (k + MaxHits).
RECURSIVE Denominator(_, _)
Denominator(k, n) == IF n = 0 THEN 1 ELSE (k + n) * Denominator(k, n - 1)
Contribution(weight, k, rank) == weight * (Denominator(k, MaxHits) \div (k + rank))
\* for rank, (work_id, _) in enumerate(vector_ranked, start=1):
\*     rrf_scores[work_id] = vector_weight / (k + rank)
VectorScores(ranked, weight, k) ==
    [r \in DOMAIN ranked |-> [key |-> ranked[r].key, val |-> Contribution(weight, k, r)]]
\* The second loop writing instead of adding.
RECURSIVE FulltextScoresOverwrite(_, _, _, _, _)
FulltextScoresOverwrite(scores, ranked, weight, k, r) ==
    IF r > Len(ranked) THEN scores
    ELSE FulltextScoresOverwrite(
           Put(scores, ranked[r].key, Contribution(weight, k, r)),
           ranked, weight, k, r + 1)
\* for rank, (work_id, _) in enumerate(fulltext_ranked, start=1):
\*     rrf_scores[work_id] = rrf_scores.get(work_id, 0) + fulltext_weight / (k + rank)
RECURSIVE FulltextScores(_, _, _, _, _)
FulltextScores(scores, ranked, weight, k, r) ==
    IF r > Len(ranked) THEN scores
    ELSE LET id == ranked[r].key
             old == IF Has(scores, id) THEN Val(scores, id) ELSE 0
         IN FulltextScores(Put(scores, id, old + Contribution(weight, k, r)),
                           ranked, weight, k, r + 1)
\* HybridSearcher._reciprocal_rank_fusion
reciprocal_rank_fusion(vector_results, fulltext_results, vector_weight, fulltext_weight, k) ==
    LET vector_ranked == SortedDesc(vector_results)
        fulltext_ranked == SortedDesc(fulltext_results)
        rrf_scores == FulltextScores(VectorScores(vector_ranked, vector_weight, k),
                                     fulltext_ranked, fulltext_weight, k, 1)
    IN SortedDesc(rrf_scores)

RrfCalls ==
    [op : {"rrf"}, vector_results : HitMaps, fulltext_results : HitMaps,
     weights : Weights, k : KValues]
RrfInit ==
    /\ ImporterInit
    /\ client = Connected
    /\ call \in RrfCalls
    /\ ret = Pending
RrfReturns ==
    /\ call.op = "rrf"
    /\ ret = Pending
    /\ ret' = Returned(reciprocal_rank_fusion(call.vector_results, call.fulltext_results,
                                              call.weights[1], call.weights[2], call.k))
    /\ UNCHANGED <<importer, client, call>>
RrfNext == RrfReturns
RrfSpec == RrfInit /\ [][RrfNext]_vars

\* The IDs of a ranking, in order.
IdsOf(ranking) == [i \in DOMAIN ranking |-> ranking[i].key]

\* C13: with weights (1, 0) the IDs of the fused ranking, in order, are the
\* IDs of the vector hits sorted by score descending, and with weights (0, 1)
\* those of the lexical hits sorted by score descending.  (Violated: an ID
\* that only the zero-weighted branch returned is kept with score 0.)
C13_WeightExtremes ==
    (call.op = "rrf" /\ ret # Pending) =>
        /\ call.weights = <<1, 0>> =>
             IdsOf(ret.value) = IdsOf(SortedDesc(call.vector_results))
        /\ call.weights = <<0, 1>> =>
             IdsOf(ret.value) = IdsOf(SortedDesc(call.fulltext_results))

\* C14: with both weights positive and no ID in both hit maps, the fused
\* ranking holds every ID of both maps with a score above zero, and the score
\* of each ID is below the score the fusion gives it when the other branch
\* returns it at the same rank too.
C14_DisjointInputs ==
    (call.op = "rrf" /\ ret # Pending /\ call.weights[1] > 0 /\ call.weights[2] > 0
       /\ Keys(call.vector_results) \cap Keys(call.fulltext_results) = {}) =>
        LET both(d) == reciprocal_rank_fusion(d, d, call.weights[1], call.weights[2], call.k)
        IN /\ Keys(ret.value) = Keys(call.vector_results) \cup Keys(call.fulltext_results)
           /\ Len(ret.value) = Cardinality(Keys(ret.value))
           /\ \A id \in Keys(ret.value) : Val(ret.value, id) > 0
           /\ \A id \in Keys(call.vector_results) :
                Val(ret.value, id) < Val(both(call.vector_results), id)
           /\ \A id \in Keys(call.fulltext_results) :
                Val(ret.value, id) < Val(both(call.fulltext_results), id)
\* {W1: 1} and {W2: 1} were fused with equal positive weights: W1 and W2 are
\* both there.
C14_Witness ==
    /\ call.op = "rrf" /\ ret # Pending
    /\ call.vector_results = <<[key |-> "W1", val |-> 1]>>
    /\ call.fulltext_results = <<[key |-> "W2", val |-> 1]>>
    /\ call.weights = <<1, 1>>
    /\ IdsOf(ret.value) = <<"W1", "W2">>
    /\ ret.value[1].val > 0 /\ ret.value[2].val > 0

\* --------------------------------------------------- search (search.py)
Raised(e) == [pending |-> FALSE, raised |-> e]
\* How a branch's calls end: the embeddings module does not import, no
\* embedding comes back, driver.session() raises, session.run raises.
VectorOutcomes == {"ok", "import_error", "no_embedding", "session_error", "query_error"}
FulltextOutcomes == {"ok", "session_error", "query_error"}
DetailsOutcomes == {"ok", "query_error"}
\* The graphs searched: every work and source of the catalogue is a node, and
\* imports merged the PUBLISHED_IN edges of published (re-importing a work
\* whose source changed adds an edge and removes none).
SearchNodes ==
    LET ws == batch_create_nodes(EmptyStore, "Work",
                  [i \in 1..Len(ListOf(WorkIds)) |->
                      WorkToNodeDict(CatalogWork(ListOf(WorkIds)[i], 1))],
                  BatchSize, FALSE, {})
    IN batch_create_nodes(ws.store, "Source",
                  [i \in 1..Len(ListOf(SourceIds)) |->
                      EntityToNodeDict(CatalogEntity("Source", ListOf(SourceIds)[i], 1))],
                  BatchSize, FALSE, {}).store
Published == SUBSET ({"W1"} \X SourceIds)
SearchStore(published) ==
    LET pairs == SelectSeq(<<<<"W1", "S1">>, <<"W1", "S2">>>>, LAMBDA e : e \in published)
    IN batch_create_relationships(SearchNodes, "PUBLISHED_IN", "Work", "Source",
                                  [i \in DOMAIN pairs |-> Edge(pairs[i][1], pairs[i][2])],
                                  BatchSize, {}).store
\* The hits an index query returns: distinct works, best first.
IndexHits == {h \in HitMaps : \A i \in DOMAIN h : h[i].val = 1}
\* HybridSearcher._vector_search(query, limit)
vector_search(outcome, hits, limit) ==
    CASE outcome = "import_error" -> Returned(<<>>)
      [] outcome = "no_embedding" -> Returned(<<>>)
      [] outcome = "session_error" -> Raised("session")
      [] outcome = "query_error" -> Returned(<<>>)
      [] OTHER -> Returned(SubSeq(hits, 1, IF Len(hits) < limit THEN Len(hits) ELSE limit))
\* HybridSearcher._fulltext_search(query, limit)
fulltext_search(outcome, hits, limit) ==
    CASE outcome = "session_error" -> Raised("session")
      [] outcome = "query_error" -> Returned(<<>>)
      [] OTHER -> Returned(SubSeq(hits, 1, IF Len(hits) < limit THEN Len(hits) ELSE limit))
\* The rows of the details query for one work ID: one per Work node with the
\* ID and PUBLISHED_IN edge to a Source, one with no source when it has no edge.
RowsOf(st, id, score) ==
    LET ws == MatchNodes(st, "Work", id)
        srcs(w) == {n \in st.nodes : /\ "Source" \in n.labels
                                     /\ [type |-> "PUBLISHED_IN", from |-> w.nid, to |-> n.nid]
                                          \in st.rels}
        names(w) == {n.props["id"] : n \in srcs(w)}
        w0 == CHOOSE w \in ws : TRUE
    IN IF ws = {} THEN <<>>
       ELSE IF srcs(w0) = {}
            THEN <<[work_id |-> id, score |-> score, source |-> None]>>
            ELSE LET l == ListOf(names(w0))
                 IN [i \in DOMAIN l |-> [work_id |-> id, score |-> score, source |-> l[i]]]
\* results.sort(key=lambda x: x.score, reverse=True)
ScoreRank(rs, i) ==
    1 + Cardinality({j \in DOMAIN rs : rs[j].score > rs[i].score})
      + Cardinality({j \in DOMAIN rs : j < i /\ rs[j].score = rs[i].score})
SortByScore(rs) == [r \in DOMAIN rs |-> rs[CHOOSE i \in DOMAIN rs : ScoreRank(rs, i) = r]]
\* HybridSearcher._get_work_details(work_ids, scores)
get_work_details(st, work_ids, scores, outcome) ==
    IF work_ids = <<>> THEN Returned(<<>>)
    ELSE IF outcome # "ok" THEN Raised("details")
    ELSE Returned(SortByScore(ConcatAll(
            [i \in DOMAIN work_ids |->
                RowsOf(st, work_ids[i],
                       IF Has(scores, work_ids[i]) THEN Val(scores, work_ids[i]) ELSE 0)])))
\* fused_results[:limit]
TopOf(fused, limit) == SubSeq(fused, 1, IF Len(fused) < limit THEN Len(fused) ELSE limit)
\* HybridSearcher.search(query, limit, vector_weight, fulltext_weight, k)
search(st, c) ==
    LET vector_results == vector_search(c.vector, c.vector_hits, c.limit * 2)
        fulltext_results == fulltext_search(c.fulltext, c.fulltext_hits, c.limit * 2)
        fused_results == reciprocal_rank_fusion(vector_results.value, fulltext_results.value,
                                                c.weights[1], c.weights[2], c.k)
        top_work_ids == IdsOf(TopOf(fused_results, c.limit))
    IN IF "raised" \in DOMAIN vector_results THEN vector_results
       ELSE IF "raised" \in DOMAIN fulltext_results THEN fulltext_results
       ELSE get_work_details(st, top_work_ids, fused_results, c.details)

SearchCalls ==
    [op : {"search"}, limit : 1..MaxLimit, weights : Weights, k : {60},
     vector : VectorOutcomes, vector_hits : IndexHits,
     fulltext : FulltextOutcomes, fulltext_hits : IndexHits,
     details : DetailsOutcomes]
SearchInit ==
    /\ IdleInit
    /\ store \in {SearchStore(p) : p \in Published}
    /\ client = Connected
    /\ call \in SearchCalls
    /\ ret = Pending
SearchReturns ==
    /\ call.op = "search"
    /\ ret = Pending
    /\ ret' = search(store, call)
    /\ UNCHANGED <<importer, client, call>>
SearchNext == SearchReturns
SearchSpec == SearchInit /\ [][SearchNext]_vars

\* The hit map a branch hands to the fusion when it did not fail.
BranchHits(outcome, hits, limit) ==
    IF outcome = "ok" THEN TopOf(hits, limit * 2) ELSE <<>>
\* The fused ranking of a call in which each branch gave its hits or nothing.
FusedOf(c) ==
    reciprocal_rank_fusion(BranchHits(c.vector, c.vector_hits, c.limit),
                           BranchHits(c.fulltext, c.fulltext_hits, c.limit),
                           c.weights[1], c.weights[2], c.k)

\* C15: when a branch of search fails (the embedding is unavailable, the
\* session or the query raises) and the details query works, search returns
\* and its result is the one of fusing the other branch's hits with an empty
\* map for the failed branch.  (Violated: driver.session() raising in a branch
\* leaves search.)
C15_BranchDegrades ==
    (call.op = "search" /\ ret # Pending /\ call.details = "ok"
       /\ (call.vector # "ok" \/ call.fulltext # "ok")) =>
        ret = get_work_details(store, IdsOf(TopOf(FusedOf(call), call.limit)),
                               FusedOf(call), "ok")

\* C16: a search that returns gives at most limit results, each for a work
\* among the first limit entries of the fused ranking and with that entry's
\* score, ordered by score non-increasing.  (Violated: a work with two
\* PUBLISHED_IN edges is returned twice.)
C16_TopLimit ==
    (call.op = "search" /\ ret # Pending /\ "value" \in DOMAIN ret) =>
        LET top == TopOf(FusedOf(call), call.limit)
        IN /\ Len(ret.value) <= call.limit
           /\ \A i \in DOMAIN ret.value :
                /\ Has(top, ret.value[i].work_id)
                /\ ret.value[i].score = Val(top, ret.value[i].work_id)
           /\ \A i, j \in DOMAIN ret.value :
                i < j => ret.value[i].score >= ret.value[j].score

\* ------------------------------------------ ID normalizer (models.py)
\* The longest string normalized and its characters.
MaxChars == 4
Chars == {"W", "1", "/"}
RECURSIVE StringsUpTo(_)
StringsUpTo(n) ==
    IF n = 0 THEN {<<>>}
    ELSE LET P == StringsUpTo(n - 1)
         IN P \cup {Append(p, c) : p \in P, c \in Chars}
NormalizeCalls == [op : {"normalize"}, url : {PyNone} \cup {Str(cs) : cs \in StringsUpTo(MaxChars)}]
NormalizeInit ==
    /\ ImporterInit
    /\ client = Connected
    /\ call \in NormalizeCalls
    /\ ret = Pending
\* extract_openalex_id(url), and extract_openalex_id of what it returned.
NormalizeReturns ==
    /\ call.op = "normalize"
    /\ ret = Pending
    /\ ret' = Returned([once |-> extract_openalex_id(call.url),
                        twice |-> extract_openalex_id(extract_openalex_id(call.url))])
    /\ UNCHANGED <<importer, client, call>>
NormalizeNext == NormalizeReturns
NormalizeSpec == NormalizeInit /\ [][NormalizeNext]_vars

\* C17: extract_openalex_id returns for None and for every string, None for
\* None, and applying it to its result gives the result again.  (Violated: a
\* string that ends in '/' gives "", and "" gives None.)
C17_Idempotent ==
    (call.op = "normalize" /\ ret # Pending) =>
        /\ ret.value.twice = ret.value.once
        /\ call.url = PyNone => ret.value.once = PyNone

\* ------------------------------------- node upsert (neo4j_client.py)
\* The most records written to the store in one run of the storage calls.
MaxWrites == 3
\* Work.to_node_dict of a work that has an embedding.
WithEmbedding(d) == d @@ ("embedding" :> "vector")
\* The records written: W1 with an embedding, W1 re-titled and without one,
\* W3 (no abstract).
WorkRecords ==
    {WithEmbedding(WorkToNodeDict(CatalogWork("W1", 1))),
     WorkToNodeDict(CatalogWork("W1", 2)),
     WorkToNodeDict(CatalogWork("W3", 1))}
NodeLists == DistinctSeqs(WorkRecords, BatchSize + 1) \ {<<>>}
FailingBatches == {{}, {1}, {2}}
\* The records of a batch_create_nodes call whose batch ran, in order.
Written(label, nodes, batch_size, dyn, failing) ==
    LET batches == Batches(nodes, batch_size)
        raised(b) == b \in failing
                     \/ (dyn /\ \E i \in DOMAIN batches[b] : "_label" \notin DOMAIN batches[b][i])
        ran == [b \in DOMAIN batches |->
                  IF raised(b) THEN <<>>
                  ELSE [i \in DOMAIN batches[b] |->
                          [op |-> "write", label |-> label, item |-> batches[b][i],
                           dynamic_label |-> dyn]]]
    IN ConcatAll(ran)
collector == <<pc, args, round, works, authors, institutions, sources, topics, publishers, funders, node_counts, counts, faults, entered>>
StoreInit ==
    /\ ImporterInit
    /\ client = Connected
    /\ call = NoCall
    /\ ret = Pending
\* One call of Neo4jClient.batch_create_nodes("Work", nodes, batch_size,
\* dynamic_label); log keeps the records written.
BatchCreateNodes ==
    \E nodes \in NodeLists, dyn \in BOOLEAN, failing \in FailingBatches :
        LET r == batch_create_nodes(store, "Work", nodes, BatchSize, dyn, failing)
            w == Written("Work", nodes, BatchSize, dyn, failing)
        IN /\ Len(log) + Len(w) <= MaxWrites
           /\ store' = r.store
           /\ log' = log \o w
           /\ call' = [op |-> "batch_create_nodes", label |-> "Work", nodes |-> nodes,
                       dynamic_label |-> dyn, failing |-> failing]
           /\ ret' = Returned(r.total)
           /\ UNCHANGED <<collector, client>>
StoreNext == BatchCreateNodes
StoreSpec == StoreInit /\ [][StoreNext]_vars

\* The writes of records with the ID, oldest first, and what the last one
\* wrote (with dynamic_label the statement writes _label: null).
WritesOf(label, id) ==
    SelectSeq(log, LAMBDA e : e.op = "write" /\ e.label = label /\ e.item["id"] = id)
LastWritten(label, id) ==
    LET e == WritesOf(label, id)[Len(WritesOf(label, id))]
    IN IF e.dynamic_label
       THEN [k \in DOMAIN e.item |-> IF k = "_label" THEN None ELSE e.item[k]]
       ELSE e.item
NonNull(item) == [k \in {x \in DOMAIN item : item[x] # None} |-> item[k]]

\* C18 as stated: after any sequence of batch_create_nodes calls there is at
\* most one Work node per ID, and its properties are exactly those of the
\* last record written for the ID.  (Violated: SET n += item keeps the
\* properties that only an earlier record had.)
C18_AsStated ==
    \A id \in WorkIds :
        /\ Cardinality(MatchNodes(store, "Work", id)) <= 1
        /\ WritesOf("Work", id) # <<>> =>
             \A n \in MatchNodes(store, "Work", id) :
                 n.props = NonNull(LastWritten("Work", id))
\* C18: after any sequence of batch_create_nodes calls (a batch may hold an
\* ID twice) there is at most one Work node per ID, exactly one when a record
\* for the ID was written, and every property of the last record written for
\* the ID has that record's value on the node (a null removes the property).
C18_UpsertUnique ==
    \A id \in WorkIds :
        /\ Cardinality(MatchNodes(store, "Work", id)) <= 1
        /\ WritesOf("Work", id) # <<>> =>
             /\ MatchNodes(store, "Work", id) # {}
             /\ \A n \in MatchNodes(store, "Work", id) :
                  \A k \in DOMAIN LastWritten("Work", id) :
                      IF LastWritten("Work", id)[k] = None
                      THEN k \notin DOMAIN n.props
                      ELSE k \in DOMAIN n.props /\ n.props[k] = LastWritten("Work", id)[k]
\* One batch wrote W1 twice, titled v1 then v2: there is one W1 node, titled
\* v2, and it still has the embedding of the first record.
C18_Witness ==
    /\ call.op = "batch_create_nodes" /\ call.failing = {}
    /\ Len(call.nodes) = 2
    /\ call.nodes[1]["id"] = "W1" /\ call.nodes[2]["id"] = "W1"
    /\ call.nodes[1]["title"] = "v1" /\ call.nodes[2]["title"] = "v2"
    /\ Len(log) = 2
    /\ Cardinality(MatchNodes(store, "Work", "W1")) = 1
    /\ \A n \in MatchNodes(store, "Work", "W1") :
          n.props["title"] = "v2" /\ "embedding" \in DOMAIN n.props

\* --------------------------------- client lifecycle (neo4j_client.py)
\* The most client calls in one run.
MaxOps == 3
\* Neo4jClient after __init__: self._driver = None.
Unconnected == [driver |-> None, outcome |-> None]
\* _driver holds None or a driver object, which is "open" (connectivity
\* verified), "unverified" (verify_connectivity raised) or "closed".
Live(c) == c.driver = "open"
\* How connect() ends: GraphDatabase.driver raises, verify_connectivity
\* raises, or both return.
ConnectOutcomes == {"driver_error", "unreachable", "ok"}
ClientInit ==
    /\ ImporterInit
    /\ client = Unconnected
    /\ call = NoCall
    /\ ret = Pending
Called(op, outcome, queried) ==
    /\ Len(log) < MaxOps
    /\ log' = Append(log, [op |-> op, live |-> Live(client), outcome |-> outcome,
                           queried |-> queried])
    /\ call' = [op |-> op]
    /\ ret' = Returned(outcome)
    /\ UNCHANGED collector
\* Neo4jClient.connect(): _driver is assigned before verify_connectivity().
Connect ==
    \E o \in ConnectOutcomes :
        /\ client' = CASE o = "driver_error" -> [client EXCEPT !.outcome = "raised"]
                       [] o = "unreachable" -> [driver |-> "unverified", outcome |-> "raised"]
                       [] OTHER -> [driver |-> "open", outcome |-> None]
        /\ Called("connect", o, FALSE)
        /\ UNCHANGED store
\* Neo4jClient.close(): closes the driver and keeps the object in _driver.
Close ==
    /\ client' = IF client.driver # None THEN [driver |-> "closed", outcome |-> None]
                 ELSE [client EXCEPT !.outcome = None]
    /\ Called("close", "returned", FALSE)
    /\ UNCHANGED store
\* The driver property: raises only when _driver is falsy.
DriverOf(c) == IF c.driver = None THEN "NotConnected" ELSE "driver"
DriverAccess ==
    /\ client' = [client EXCEPT !.outcome = IF DriverOf(client) = "NotConnected"
                                            THEN "raised" ELSE None]
    /\ Called("driver", DriverOf(client), FALSE)
    /\ UNCHANGED store
\* Neo4jClient.create_constraints(): self.driver.session() and one statement
\* per entity type, each in its own try.  On a driver that is not open the
\* library either raises from session() or fails every statement.
StorageOperation ==
    \/ /\ DriverOf(client) = "NotConnected"
       /\ client' = [client EXCEPT !.outcome = "raised"]
       /\ Called("create_constraints", "NotConnected", FALSE)
       /\ UNCHANGED store
    \/ /\ client.driver = "open"
       /\ client' = [client EXCEPT !.outcome = None]
       /\ store' = [store EXCEPT !.constraints = Len(ENTITY_TYPES)]
       /\ Called("create_constraints", "returned", TRUE)
    \/ /\ client.driver \in {"unverified", "closed"}
       /\ \E o \in {"library_error", "returned"} :
            /\ client' = [client EXCEPT !.outcome = IF o = "returned" THEN None ELSE "raised"]
            /\ Called("create_constraints", o, o = "returned")
       /\ UNCHANGED store
ClientNext == Connect \/ Close \/ DriverAccess \/ StorageOperation
ClientSpec == ClientInit /\ [][ClientNext]_vars

\* C19: every access to the driver and every storage operation made while
\* the client has no live connection (never connected, connect() failed,
\* closed) raised the 'Not connected' error and issued no query, and none
\* made on a live connection raised it.  (Violated: after close() and after a
\* connect() that failed in verify_connectivity the driver object is still
\* in _driver, and the property hands it out.)
C19_NotConnectedRaises ==
    \A i \in DOMAIN log :
        log[i].op \in {"driver", "create_constraints"} =>
            IF log[i].live
            THEN log[i].outcome # "NotConnected"
            ELSE log[i].outcome = "NotConnected" /\ ~log[i].queried

\* ------------------------------------------------ merging fetched entities
\* The records the fetches of a kind have returned so far, in order.
FetchedOf(kind) ==
    LET es == FetchesOf(kind) IN ConcatAll([i \in DOMAIN es |-> es[i].result])
\* The collection d holds, for every ID with a record, the first record the
\* fetches of the kind returned for the ID.
FirstKept(d, kind) ==
    LET fetched == FetchedOf(kind)
    IN \A i \in DOMAIN d :
         d[i].val # Placeholder =>
            \E j \in DOMAIN fetched :
                /\ fetched[j].id = d[i].key
                /\ \A k \in 1..(j - 1) : fetched[k].id # d[i].key
                /\ d[i].val = fetched[j]

\* C20: the author, institution, source, topic, funder and publisher
\* collections hold for every ID the first record a fetch returned for it; a
\* later record with the same ID is dropped.  (Violated: the merge loops
\* assign self.<kind>[x.id] = x, so the later record replaces the first.)
C20_EntitiesFirstWriteWins ==
    /\ FirstKept(authors, "Author")
    /\ FirstKept(institutions, "Institution")
    /\ FirstKept(sources, "Source")
    /\ FirstKept(topics, "Topic")
    /\ FirstKept(funders, "Funder")
    /\ FirstKept(publishers, "Publisher")

\* -------------------------------------------------- claims on the rounds
\* The fetch calls a step appended to the log.
NewFetches == SelectSeq(SubSeq(log', Len(log) + 1, Len(log')), LAMBDA e : e.op = "fetch")
\* The IDs a collection holds a record for.
ResolvedKeys(d) == {d[i].key : i \in {j \in DOMAIN d : d[j].val # Placeholder}}
ResolvedOf(kind) ==
    CASE kind = "Author" -> ResolvedKeys(authors)
      [] kind = "Institution" -> ResolvedKeys(institutions)
      [] kind = "Source" -> ResolvedKeys(sources)
      [] kind = "Topic" -> ResolvedKeys(topics)
      [] kind = "Funder" -> ResolvedKeys(funders)
      [] kind = "Work" -> ResolvedKeys(works)
      [] kind = "Publisher" -> ResolvedKeys(publishers)

\* C21: in every expansion round, no fetch requests an ID its collection
\* already holds a record for, every ID list names each ID once, and each kind
\* is fetched by at most one call.
C21_FrontierOnly ==
    [][round' = round + 1 =>
         LET new == NewFetches
         IN /\ \A i \in DOMAIN new :
                 /\ Range(new[i].ids) \cap ResolvedOf(new[i].kind) = {}
                 /\ Cardinality(Range(new[i].ids)) = Len(new[i].ids)
            /\ \A i, j \in DOMAIN new : new[i].kind = new[j].kind => i = j]_vars
\* W1 and W2 both name author A1 (W2 twice) and were seeds: round 1 asked for
\* A1 and A2 in one call; round 2 ran with the authors held and made a fetch.
C21_Witness ==
    /\ round = 2
    /\ {"W1", "W2"} \subseteq Seeds
    /\ Len(FetchesOf("Author")) = 1
    /\ FetchesOf("Author")[1].ids = <<"A1", "A2">>
    /\ \E i, j \in DOMAIN log :
          /\ i < j /\ log[i].op = "expand" /\ log[i].n = 2 /\ log[j].op = "fetch"

\* The publisher IDs held as placeholders once the sources a step fetched
\* are merged: those held before, and those the fetched sources name anew.
PlaceholdersAfterSources ==
    LET new == NewFetches
        srcs == ConcatAll([i \in DOMAIN new |->
                   IF new[i].kind = "Source" THEN new[i].result ELSE <<>>])
    IN {publishers[i].key : i \in {j \in DOMAIN publishers : publishers[j].val = Placeholder}}
       \cup ({srcs[i].publisher_id : i \in DOMAIN srcs} \ ({None} \cup Keys(publishers)))

\* C22: in every expansion round the publisher fetch comes after the source
\* fetch and asks for exactly the publisher IDs held as placeholders at that
\* point (none: no publisher fetch); when it returns a record for each of
\* them, no placeholder is left when the round ends.
C22_PublisherBackfill ==
    [][round' = round + 1 =>
         LET new == NewFetches
             pubs == {i \in DOMAIN new : new[i].kind = "Publisher"}
         IN /\ \A i \in pubs : \A j \in DOMAIN new : new[j].kind = "Source" => j < i
            /\ UNION {Range(new[i].ids) : i \in pubs} = PlaceholdersAfterSources
            /\ (\A i \in pubs : Range(new[i].ids) \subseteq ResultIds(new[i]))
                 => \A k \in DOMAIN publishers' : publishers'[k].val # Placeholder]_vars
\* One round fetched source S1, which names P1, then fetched P1: P1 is held
\* with its record.
C22_Witness ==
    /\ round = 1
    /\ \E i, j \in DOMAIN log :
          /\ i < j
          /\ log[i].op = "fetch" /\ log[i].kind = "Source" /\ "S1" \in ResultIds(log[i])
          /\ log[j].op = "fetch" /\ log[j].kind = "Publisher" /\ log[j].ids = <<"P1">>
    /\ Has(publishers, "P1") /\ Val(publishers, "P1") # Placeholder

\* ------------------------------------------- claims on the relationships
\* The (author, institution) pairs of the known works with both ends held.
AffiliationPairs ==
    UNION {{Edge(a, inst) :
                a \in Range(works[i].val.author_ids) \cap Keys(authors),
                inst \in Range(works[i].val.institution_ids) \cap Keys(institutions)} :
           i \in DOMAIN works}

\* C23: once the run has returned, the AFFILIATED_WITH batch submitted holds
\* exactly the (author, institution) pairs of the known works whose author and
\* institution are both held, each pair once.
C23_AffiliationsUnion ==
    pc = "done" =>
        /\ Range(Submitted("affiliated_with")) = AffiliationPairs
        /\ Len(Submitted("affiliated_with")) = Cardinality(AffiliationPairs)
\* W1 and W2 (which lists A1 twice) both give the pair A1 -> I1, W2 also
\* A2 -> I1: the batch holds the two pairs.
C23_Witness ==
    /\ pc = "done"
    /\ {"W1", "W2"} \subseteq Keys(works)
    /\ Keys(authors) = {"A1", "A2"} /\ Has(institutions, "I1")
    /\ Len(Submitted("affiliated_with")) = 2
    /\ Range(Submitted("affiliated_with")) = {Edge("A1", "I1"), Edge("A2", "I1")}

\* -------------------------------------------------- claims on the fusion
\* The term a source adds to the score of id: weight / (k + rank), with rank
\* the 1-based position of id when the hits are ordered by score descending;
\* nothing when the source has no hit for id.
TermOf(hits, id, weight, k) ==
    IF ~Has(hits, id) THEN 0
    ELSE LET i == CHOOSE j \in DOMAIN hits : hits[j].key = id
         IN Contribution(weight, k, RankOf(hits, i))

\* C24: the fused ranking holds every ID of either hit map exactly once, the
\* score of each is the sum of its vector term and its lexical term, and the
\* scores do not increase along the ranking.
C24_FusedScores ==
    (call.op = "rrf" /\ ret # Pending) =>
        /\ Keys(ret.value) = Keys(call.vector_results) \cup Keys(call.fulltext_results)
        /\ Len(ret.value) = Cardinality(Keys(ret.value))
        /\ \A i \in DOMAIN ret.value :
             ret.value[i].val =
                 TermOf(call.vector_results, ret.value[i].key, call.weights[1], call.k)
                 + TermOf(call.fulltext_results, ret.value[i].key, call.weights[2], call.k)
        /\ \A i, j \in DOMAIN ret.value : i < j => ret.value[i].val >= ret.value[j].val
\* Vector hits {W1: 2, W2: 1} and lexical hits {W2: 2, W3: 1} were fused with
\* weights (1, 1) and k = 60: W2, in both, is first, then W1, then W3.
C24_Witness ==
    /\ call.op = "rrf" /\ ret # Pending
    /\ call.vector_results = <<[key |-> "W1", val |-> 2], [key |-> "W2", val |-> 1]>>
    /\ call.fulltext_results = <<[key |-> "W2", val |-> 2], [key |-> "W3", val |-> 1]>>
    /\ call.weights = <<1, 1>> /\ call.k = 60
    /\ IdsOf(ret.value) = <<"W2", "W1", "W3">>
    /\ ret.value[1].val = ret.value[2].val + ret.value[3].val

\* C25: the fused ranking holds exactly the IDs whose fused score is not zero.
\* (Violated: an ID that only a zero-weighted branch returned is in the
\* ranking with score 0.)
C25_NonzeroOnly ==
    (call.op = "rrf" /\ ret # Pending) =>
        /\ \A i \in DOMAIN ret.value : ret.value[i].val # 0
        /\ \A id \in Keys(call.vector_results) \cup Keys(call.fulltext_results) :
             (TermOf(call.vector_results, id, call.weights[1], call.k)
              + TermOf(call.fulltext_results, id, call.weights[2], call.k)) # 0
                 => Has(ret.value, id)

\* ------------------------- one expansion round, its fetches in any order
\* The six kinds whose frontier a round computes before its first fetch.
FrontierKinds == {"Author", "Institution", "Source", "Topic", "Funder", "Work"}
\* The collections after _add_works(list) on a new importer.
Seeded(list) ==
    [works |-> AddWorks(<<>>, list), authors |-> <<>>, institutions |-> <<>>,
     sources |-> <<>>, topics |-> <<>>, publishers |-> <<>>, funders |-> <<>>]
\* The collections a round can start from: after the seeding, and after a
\* first round on them.
SeededStarts ==
    {Seeded(SearchResult(ListOf(S), {})) :
        S \in {T \in SUBSET WorkIds : T # {} /\ Cardinality(T) <= MaxLimit}}
RoundStarts == SeededStarts \cup {ExpandRound(c, {}).coll : c \in SeededStarts}
\* The frontier of a kind as a fetch issued at collections c sees it: computed
\* from c rather than from the collections the round started with.
RoundFrontierLate(start, c, kind) == Frontier(c, kind)
\* The ID sets are computed from the collections at the start of the round,
\* before any fetch is issued.
RoundFrontier(start, c, kind) == Frontier(start, kind)
NoReplies == [kind \in FetchKinds |-> <<>>]
RoundInit ==
    /\ pc = "expand" /\ round = 0 /\ faults = 0
    /\ args = [query |-> "q", limit |-> MaxLimit, expand_depth |-> MaxDepth, kwargs |-> {}]
    /\ store = EmptyStore /\ node_counts = EmptyCounts /\ counts = EmptyCounts
    /\ log = <<>> /\ entered = [w \in {} |-> 0]
    /\ client = Connected
    /\ ret = Pending
    /\ \E c \in RoundStarts :
         /\ works = c.works /\ authors = c.authors /\ institutions = c.institutions
         /\ sources = c.sources /\ topics = c.topics /\ publishers = c.publishers
         /\ funders = c.funders
         /\ \E F \in SubsetsUpTo(RoundFaults(c), MaxFaults) :
              /\ ExpandRound(c, F).valid
              /\ call = [op |-> "round", start |-> c, faults |-> F,
                         phase |-> [kind \in FetchKinds |-> "todo"],
                         replies |-> NoReplies]
idle == <<pc, args, round, store, node_counts, counts, faults, log, entered, client>>
\* The fetch of one kind is issued (no call when there is nothing to ask for);
\* the publishers are asked for once the sources are merged.
IssueFetch(kind) ==
    /\ call.op = "round" /\ ret = Pending
    /\ call.phase[kind] = "todo"
    /\ kind = "Publisher" => call.phase["Source"] = "merged"
    /\ LET ids == IF kind = "Publisher" THEN PlaceholderIds(publishers)
                  ELSE ListOf(RoundFrontier(call.start, Coll, kind))
       IN call' = [call EXCEPT
                     !.phase[kind] = IF ids = <<>> THEN "merged" ELSE "fetched",
                     !.replies[kind] = FetchResult(kind, ids, call.faults)]
    /\ UNCHANGED <<collections, idle, ret>>
\* The records of one fetch are merged into the collections.
MergeFetched(kind) ==
    /\ call.op = "round" /\ ret = Pending
    /\ call.phase[kind] = "fetched"
    /\ LET got == call.replies[kind]
           sp == MergeSources([sources |-> sources, publishers |-> publishers], got)
       IN /\ works' = IF kind = "Work" THEN AddWorks(works, got) ELSE works
          /\ authors' = IF kind = "Author" THEN MergeEntities(authors, got) ELSE authors
          /\ institutions' = IF kind = "Institution" THEN MergeEntities(institutions, got)
                             ELSE institutions
          /\ sources' = IF kind = "Source" THEN sp.sources ELSE sources
          /\ topics' = IF kind = "Topic" THEN MergeEntities(topics, got) ELSE topics
          /\ funders' = IF kind = "Funder" THEN MergeEntities(funders, got) ELSE funders
          /\ publishers' = CASE kind = "Source" -> sp.publishers
                             [] kind = "Publisher" -> MergeEntities(publishers, got)
                             [] OTHER -> publishers
    /\ call' = [call EXCEPT !.phase[kind] = "merged"]
    /\ UNCHANGED <<idle, ret>>
\* The round returns once every fetch is merged.
RoundReturns ==
    /\ call.op = "round" /\ ret = Pending
    /\ \A kind \in FetchKinds : call.phase[kind] = "merged"
    /\ ret' = Returned(Coll)
    /\ UNCHANGED <<collections, idle, call>>
RoundNext ==
    \/ \E kind \in FetchKinds : IssueFetch(kind)
    \/ \E kind \in FetchKinds : MergeFetched(kind)
    \/ RoundReturns
RoundSpec == RoundInit /\ [][RoundNext]_vars

\* C26: in whatever order the fetches of a round are issued and merged (the
\* publishers after the sources), the seven collections at the end of the
\* round are those of the order in the code.
C26_OrderIndependent ==
    (call.op = "round" /\ ret # Pending) =>
        ret.value = ExpandRound(call.start, call.faults).coll
\* A round on the seed W1 has ended in which the referenced works were merged
\* before the authors were asked for, and it fetched W2 and the author A1.
C26_Witness ==
    /\ call.op = "round" /\ ret # Pending
    /\ Keys(call.start.works) = {"W1"} /\ call.start.authors = <<>>
    /\ Keys(works) = {"W1", "W2"} /\ Keys(authors) = {"A1"}
    /\ Has(publishers, "P1")

\* --------------------------------- a second run on the same importer
\* import_from_query is called again on the importer object once a run has
\* returned: the method resets nothing, so the seven collections are those the
\* first run left; the graph store keeps what was written.  The log, the
\* round counter and the counts are the new run's.
Rerun ==
    /\ pc = "done"
    /\ call = NoCall
    /\ call' = [op |-> "import_from_query", run |-> 2]
    /\ pc' = "idle"
    /\ args' = NoArgs
    /\ round' = 0
    /\ node_counts' = EmptyCounts
    /\ counts' = EmptyCounts
    /\ log' = <<>>
    /\ entered' = [w \in {} |-> 0]
    /\ UNCHANGED <<collections, store, faults, client, ret>>
\* The runs looked at: one seed, no rejected keyword, no collaborator failure.
PlainStep == faults' = 0 /\ args'.limit <= 1 /\ args'.kwargs = {}
RerunNext == (Next /\ PlainStep) \/ Rerun
RerunSpec == Init /\ [][RerunNext]_vars

\* The collection d holds only IDs the source returned in this run (or, for
\* publishers, named by a source it returned).
FromThisRun(d, kind) == ResolvedKeys(d) \subseteq ReturnedIds(kind)

\* C27: when a run returns, its collections and the node batches it submitted
\* are those of a new importer given the run's own search and fetch replies:
\* the works are the run's added works, and every other collection and the
\* Work batch hold only IDs returned during the run.  (Violated: a second run
\* on the same importer starts from the collections of the first.)
C27_RunsIndependent ==
    pc = "done" =>
        /\ works = AddWorks(<<>>, AddedWorks)
        /\ FromThisRun(authors, "Author")
        /\ FromThisRun(institutions, "Institution")
        /\ FromThisRun(sources, "Source")
        /\ FromThisRun(topics, "Topic")
        /\ FromThisRun(funders, "Funder")
        /\ FromThisRun(publishers, "Publisher")
        /\ \A i \in DOMAIN Submitted("works") :
             Submitted("works")[i]["id"] \in ReturnedIds("Work")
        /\ "works" \in DOMAIN counts => counts["works"] <= Cardinality(ReturnedIds("Work"))

\* -------------------------- one expansion round, record by record
\* The order of the fetches in _expand_relationships.
KindOrder == <<"Author", "Institution", "Source", "Topic", "Funder", "Work", "Publisher">>
RecordInit ==
    /\ pc = "expand" /\ round = 0 /\ faults = 0
    /\ args = [query |-> "q", limit |-> MaxLimit, expand_depth |-> MaxDepth, kwargs |-> {}]
    /\ store = EmptyStore /\ node_counts = EmptyCounts /\ counts = EmptyCounts
    /\ log = <<>> /\ entered = [w \in {} |-> 0]
    /\ client = Connected
    /\ ret = Pending
    /\ \E c \in RoundStarts :
         /\ works = c.works /\ authors = c.authors /\ institutions = c.institutions
         /\ sources = c.sources /\ topics = c.topics /\ publishers = c.publishers
         /\ funders = c.funders
         /\ \E F \in SubsetsUpTo(RoundFaults(c), MaxFaults) :
              /\ ExpandRound(c, F).valid
              /\ call = [op |-> "records", start |-> c, faults |-> F, at |-> 1,
                         stage |-> "fetch", rest |-> <<>>]
\* The fetch of the kind the round has come to.
FetchKind ==
    /\ call.op = "records" /\ call.stage = "fetch"
    /\ LET kind == KindOrder[call.at]
           ids == IF kind = "Publisher" THEN PlaceholderIds(publishers)
                  ELSE ListOf(Frontier(call.start, kind))
       IN call' = [call EXCEPT !.stage = "merge",
                               !.rest = FetchResult(kind, ids, call.faults)]
    /\ UNCHANGED <<collections, idle, ret>>
\* One pass of the loop over the fetched records of the kind.
MergeRecord ==
    /\ call.op = "records" /\ call.stage = "merge" /\ call.rest # <<>>
    /\ LET kind == KindOrder[call.at]
           got == <<Head(call.rest)>>
           sp == MergeSources([sources |-> sources, publishers |-> publishers], got)
       IN /\ works' = IF kind = "Work" THEN AddWorks(works, got) ELSE works
          /\ authors' = IF kind = "Author" THEN MergeEntities(authors, got) ELSE authors
          /\ institutions' = IF kind = "Institution" THEN MergeEntities(institutions, got)
                             ELSE institutions
          /\ sources' = IF kind = "Source" THEN sp.sources ELSE sources
          /\ topics' = IF kind = "Topic" THEN MergeEntities(topics, got) ELSE topics
          /\ funders' = IF kind = "Funder" THEN MergeEntities(funders, got) ELSE funders
          /\ publishers' = CASE kind = "Source" -> sp.publishers
                             [] kind = "Publisher" -> MergeEntities(publishers, got)
                             [] OTHER -> publishers
    /\ call' = [call EXCEPT !.rest = Tail(call.rest)]
    /\ UNCHANGED <<idle, ret>>
\* The loop over the records has ended: on to the next kind, or return.
NextKind ==
    /\ call.op = "records" /\ call.stage = "merge" /\ call.rest = <<>>
    /\ IF call.at < Len(KindOrder)
       THEN /\ call' = [call EXCEPT !.at = call.at + 1, !.stage = "fetch"]
            /\ UNCHANGED ret
       ELSE /\ call' = [call EXCEPT !.stage = "done"]
            /\ ret' = Returned(Coll)
    /\ UNCHANGED <<collections, idle>>
RecordNext == FetchKind \/ MergeRecord \/ NextKind
RecordSpec == RecordInit /\ [][RecordNext]_vars

\* The collection d has become e: the entries of d are all there, in place.
Grown(d, e) == Len(d) <= Len(e) /\ \A i \in DOMAIN d : e[i].key = d[i].key
\* ... and each has the value it had.
Kept(d, e) == Grown(d, e) /\ \A i \in DOMAIN d : e[i].val = d[i].val
\* ... or is a placeholder that got the record with its ID.
KeptOrFilled(d, e) ==
    /\ Grown(d, e)
    /\ \A i \in DOMAIN d :
         \/ e[i].val = d[i].val
         \/ d[i].val = Placeholder /\ e[i].val # Placeholder /\ e[i].val.id = d[i].key

\* C28: no step removes an ID from a collection or changes the value of an
\* entry, but for a publisher placeholder that gets its record.  (Violated:
\* a second record for an author ID replaces the one stored.)
C28_OnlyGrow ==
    [][/\ Kept(works, works')
       /\ Kept(authors, authors')
       /\ Kept(institutions, institutions')
       /\ Kept(sources, sources')
       /\ Kept(topics, topics')
       /\ Kept(funders, funders')
       /\ KeptOrFilled(publishers, publishers')]_vars

\* ------------------------------------------- claims on the depth limit
\* The IDs of a kind the work record w names.
RefsOf(w, kind) ==
    CASE kind = "Author" -> Range(w.author_ids)
      [] kind = "Institution" -> Range(w.institution_ids)
      [] kind = "Source" -> IF w.source_id = None THEN {} ELSE {w.source_id}
      [] kind = "Topic" -> Range(w.topic_ids)
      [] kind = "Funder" -> Range(w.funder_ids)
      [] kind = "Work" -> Range(w.referenced_work_ids)
\* The IDs of a kind named by the stored works that entered in a round of R.
RefsOfRounds(R, kind) ==
    UNION {RefsOf(works[i].val, kind) :
             i \in {j \in DOMAIN works : entered[works[j].key] \in R}}
\* The IDs of a kind named only by the works that entered in the last round.
OnlyLastRound(kind) ==
    RefsOfRounds({args.expand_depth}, kind)
        \ RefsOfRounds(0..(args.expand_depth - 1), kind)
\* The IDs of a kind the fetches of the run have requested.
RequestedIds(kind) ==
    LET fs == FetchesOf(kind) IN UNION {Range(fs[i].ids) : i \in DOMAIN fs}
\* The edges submitted to storage that join the work w and the entity x.
EdgesBetween(w, x) ==
    {k \in {"authored", "published_in", "cites", "has_topic", "funded_by"} :
        LET b == Range(Submitted(k))
        IN Edge(w, x) \in b \/ Edge(x, w) \in b}
\* The works a round has added.
EnteringWorks == {i \in DOMAIN works' : ~Has(works, works'[i].key)}

\* C29 as stated: a round requests no ID that a work entering in that round
\* names, and at the end no entity named only by works of the last round is
\* resolved or has an edge to them.  (Violated: an ID that a work held before
\* the round names too is requested in the round; a referenced work that the
\* collection holds as a search result is resolved and gets its CITES edge.)
C29_AsStated ==
    [][/\ round' = round + 1 =>
            \A e \in Range(NewFetches) : \A i \in EnteringWorks :
                e.kind \in FrontierKinds =>
                    Range(e.ids) \cap RefsOf(works'[i].val, e.kind) = {}
       /\ pc' = "done" =>
            \A kind \in FrontierKinds : \A x \in OnlyLastRound(kind)' :
                /\ x \notin ResolvedOf(kind)'
                /\ \A w \in Keys(works') : EdgesBetween(w, x)' = {}]_vars

\* C29, amended: every ID a round requests is named by a work held before the
\* round, so the works entering in the round add nothing to its requests; and
\* at the end an entity named only by works of the last round has never been
\* requested, and unless it is a work the collection holds it is unresolved
\* and no edge joins a work and it.
C29_DepthLimit ==
    [][/\ round' = round + 1 =>
            \A e \in Range(NewFetches) :
                e.kind \in FrontierKinds =>
                    Range(e.ids) \subseteq RefsOfRounds(0..round, e.kind)
       /\ pc' = "done" =>
            \A kind \in FrontierKinds : \A x \in OnlyLastRound(kind)' :
                /\ x \notin RequestedIds(kind)'
                /\ (kind = "Work" /\ Has(works', x))
                   \/ /\ x \notin ResolvedOf(kind)'
                      /\ \A w \in Keys(works') : EdgesBetween(w, x)' = {}]_vars
\* A run of depth 1 from W1 has ended: W2 entered in round 1, and its author
\* A2 and source S2, which W1 does not name, are not held.
C29_Witness ==
    /\ pc = "done" /\ args.expand_depth = 1
    /\ "W2" \in DOMAIN entered /\ entered["W2"] = 1
    /\ "A2" \in OnlyLastRound("Author") /\ ~Has(authors, "A2")
    /\ "S2" \in OnlyLastRound("Source") /\ ~Has(sources, "S2")
    /\ Has(authors, "A1")

\* ------------------------------- node and relationship import on its own
\* Steps 4 and 5 of import_from_query, from the collections a round leaves
\* when its sources name the publishers of PublisherPool and the publisher
\* fetch delivers some of them.
PublisherPool == {"P1", "P2"}
SourceNaming(p) ==
    [id |-> IF p = "P1" THEN "S1" ELSE "S2", display_name |-> Title(1), publisher_id |-> p]
PublisherRecord(p) == [id |-> p, display_name |-> Title(1)]
\* The collections after the sources naming ps have been merged and the
\* publishers of G among the placeholders have been delivered.
AfterSources(ps, G) ==
    LET sp == MergeSources([sources |-> <<>>, publishers |-> <<>>],
                           [i \in DOMAIN ps |-> SourceNaming(ps[i])])
        got == SelectSeq(PlaceholderIds(sp.publishers), LAMBDA p : p \in G)
    IN [Seeded(SearchResult(<<"W1", "W2">>, {})) EXCEPT
          !.sources = sp.sources,
          !.publishers = MergeEntities(sp.publishers,
                                       [i \in DOMAIN got |-> PublisherRecord(got[i])])]
NodesStarts ==
    {AfterSources(ps, G) :
        ps \in DistinctSeqs(PublisherPool, Cardinality(PublisherPool)),
        G \in SUBSET PublisherPool}
NodesInit ==
    /\ pc = "nodes" /\ round = 1 /\ faults = 0
    /\ args = [query |-> "q", limit |-> MaxLimit, expand_depth |-> 1, kwargs |-> {}]
    /\ store = EmptyStore /\ node_counts = EmptyCounts /\ counts = EmptyCounts
    /\ log = <<>> /\ entered = [w \in {} |-> 0]
    /\ client = Connected
    /\ call = [op |-> "import_nodes"]
    /\ ret = Pending
    /\ \E c \in NodesStarts :
         /\ works = c.works /\ authors = c.authors /\ institutions = c.institutions
         /\ sources = c.sources /\ topics = c.topics /\ publishers = c.publishers
         /\ funders = c.funders
NodesNext == ImportNodes \/ ImportRelationships
NodesSpec == NodesInit /\ [][NodesNext]_vars

\* The Publisher batch submitted to storage, as logged.
PublisherCalls ==
    SelectSeq(log, LAMBDA e : e.op = "batch_create_nodes" /\ e.key = "publishers")
FetchedPublishers == SelectSeq(publishers, LAMBDA e : e.val # Placeholder)

\* C30: once the node import has run, the Publisher batch is the list of the
\* property maps of the fetched publishers, in order; no placeholder ID is in
\* the batch or on a Publisher node of the store; and when no publisher is
\* fetched no Publisher batch was submitted and neither the node counts nor
\* the returned counts have the key "publishers".
C30_PlaceholdersSkipped ==
    pc \in {"rels", "done"} =>
        LET fetched == FetchedPublishers
            held == Range(PlaceholderIds(publishers))
        IN /\ Submitted("publishers")
                = [i \in DOMAIN fetched |-> EntityToNodeDict(fetched[i].val)]
           /\ Len(PublisherCalls) <= 1
           /\ \A i \in DOMAIN Submitted("publishers") :
                 Submitted("publishers")[i]["id"] \notin held
           /\ \A n \in store.nodes :
                 "Publisher" \in n.labels => n.props["id"] \notin held
           /\ fetched = <<>> =>
                 /\ PublisherCalls = <<>>
                 /\ "publishers" \notin DOMAIN node_counts
                 /\ "publishers" \notin DOMAIN counts
\* The import has returned with P1 a placeholder and P2 fetched: the
\* Publisher batch was the one node P2.
C30_Witness ==
    /\ pc = "done"
    /\ Has(publishers, "P1") /\ Val(publishers, "P1") = Placeholder
    /\ Has(publishers, "P2") /\ Val(publishers, "P2") # Placeholder
    /\ Submitted("publishers") = <<EntityToNodeDict(PublisherRecord("P2"))>>
    /\ "publishers" \in DOMAIN counts

====
